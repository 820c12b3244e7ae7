------------------------ MODULE BeatSchedulesProofs ------------------------
(***************************************************************************)
(* Theorems about BeatSchedules, for any schedules, tasks, bodies and      *)
(* number of requests, and whatever the library does with the tasks of a   *)
(* schedule that is removed.                                               *)
(***************************************************************************)
EXTENDS BeatSchedules, TLAPS

-----------------------------------------------------------------------------
(* Types.                                                                  *)

Fields == {"name", "discriminator", "schedule_id", "enabled", "one_off", "args", "kwargs"}

\* validate_schedule_pair.
Paired(b) == b.schedule_id = None <=> b.discriminator = None

\* What a request holds at each place.
Ready(h) ==
    /\ pc[h] # "idle" => req[h] \in Request
    /\ pc[h] \in {"find", "insert"} => req[h].spec \in Wanted
    /\ pc[h] \in {"look", "remove"} => req[h].at \in Pointer
    /\ pc[h] \in {"name", "load", "link", "commit"} => req[h].body \in Body /\ Paired(req[h].body)
    /\ pc[h] \in {"name", "load", "link", "commit", "refresh", "respond", "get", "delete"} =>
          req[h].task \in Tasks
    /\ pc[h] \in {"name", "link", "commit"} /\ req[h].op # "update" => Full(req[h].body)
    /\ pc[h] \in {"link", "commit"} /\ req[h].op # "create" => loaded[h] \in Task
    /\ pc[h] \in {"link", "commit"} => req[h].op \in {"create", "update"}
    /\ pc[h] = "name" => req[h].op = "create"
    /\ pc[h] = "load" => req[h].op = "update"
    /\ pc[h] = "link" => PointerOf(req[h].body) \in Pointer
    /\ pc[h] = "respond" => loaded[h] \in Task
    /\ pc[h] = "stored" => made[h] \in Pointer

TypeInv == TypeOK /\ \A h \in Handlers : Ready(h)

LEMMA NoneIsNoTask == None \notin Tasks /\ None \notin Names /\ None \notin BOOLEAN
  BY BeatAssumption

LEMMA TaskFields ==
    ASSUME NEW t \in Task
    PROVE  /\ DOMAIN t = Fields
           /\ t["name"] \in Names /\ t["discriminator"] \in Kinds /\ t["schedule_id"] \in Ids
           /\ t["enabled"] \in BOOLEAN /\ t["one_off"] \in BOOLEAN /\ t["args"] \in BOOLEAN
           /\ t["kwargs"] \in BOOLEAN /\ PointerOf(t) \in Pointer
  BY DEF Task, Fields, PointerOf, Pointer

LEMMA FieldsTask ==
    ASSUME NEW e, e = [f \in Fields |-> e[f]], e["name"] \in Names, e["discriminator"] \in Kinds,
           e["schedule_id"] \in Ids, e["enabled"] \in BOOLEAN, e["one_off"] \in BOOLEAN, e["args"] \in BOOLEAN, e["kwargs"] \in BOOLEAN
    PROVE  e \in Task
  BY DEF Task, Fields

LEMMA BodyFields ==
    ASSUME NEW b \in Body
    PROVE  /\ b["name"] \in Optional(Names) /\ b["discriminator"] \in Optional(Kinds)
           /\ b["schedule_id"] \in Optional(Ids) /\ b["enabled"] \in Optional(BOOLEAN) /\ b["one_off"] \in Optional(BOOLEAN)
           /\ b["args"] \in Optional(BOOLEAN) /\ b["kwargs"] \in Optional(BOOLEAN)
           /\ b = [f \in Fields |-> b[f]]
  BY DEF Body, Fields

LEMMA BodyPointer ==
    ASSUME NEW b \in Body, Paired(b), b.schedule_id # None
    PROVE  PointerOf(b) \in Pointer
  BY BodyFields DEF Paired, PointerOf, Pointer, Optional

\* What Begin sends.
LEMMA SentForms ==
    ASSUME NEW r \in Sent
    PROVE  /\ r \in Request
           /\ \/ r.op = "add" /\ r.spec \in Wanted
              \/ r.op = "remove" /\ r.at \in Pointer
              \/ r.op = "create" /\ r.task \in Tasks /\ r.body \in Body /\ Paired(r.body) /\ Full(r.body)
              \/ r.op = "update" /\ r.task \in Tasks /\ r.body \in Body /\ Paired(r.body)
              \/ r.op = "delete" /\ r.task \in Tasks
  <1>1. CASE \E s \in Specs : r = AddSchedule(s)
    BY <1>1, BeatAssumption DEF AddSchedule, Empty, Request, Optional
  <1>2. CASE \E p \in Pointer : r = RemoveSchedule(p)
    BY <1>2 DEF RemoveSchedule, Empty, Request, Optional
  <1>3. ASSUME NEW op \in {"create", "update"}, NEW t \in Tasks, NEW b \in Body, r = WriteTask(op, t, b)
        PROVE  r \in Request /\ r.op = op /\ r.task = t /\ r.body = b
    BY <1>3 DEF WriteTask, Empty, Request, Optional
  <1>4. CASE \E t \in Tasks : \E b \in {c \in Bodies : Valid(c) /\ Full(c)} : r = WriteTask("create", t, b)
    <2>1. PICK t \in Tasks, b \in Body : r = WriteTask("create", t, b) /\ Full(b) /\ Paired(b)
      BY <1>4, BeatAssumption DEF Valid, Paired
    <2> QED BY <2>1, <1>3
  <1>5. CASE \E t \in Tasks : \E b \in {c \in Bodies : Valid(c)} : r = WriteTask("update", t, b)
    <2>1. PICK t \in Tasks, b \in Body : r = WriteTask("update", t, b) /\ Paired(b)
      BY <1>5, BeatAssumption DEF Valid, Paired
    <2> QED BY <2>1, <1>3
  <1>6. CASE \E t \in Tasks : r = RemoveTask(t)
    BY <1>6 DEF RemoveTask, Empty, Request, Optional
  <1>7. \/ \E s \in Specs : r = AddSchedule(s)
        \/ \E p \in Pointer : r = RemoveSchedule(p)
        \/ \E t \in Tasks : \E b \in {c \in Bodies : Valid(c) /\ Full(c)} : r = WriteTask("create", t, b)
        \/ \E t \in Tasks : \E b \in {c \in Bodies : Valid(c)} : r = WriteTask("update", t, b)
        \/ \E t \in Tasks : r = RemoveTask(t)
    BY DEF Sent
  <1> QED BY <1>1, <1>2, <1>4, <1>5, <1>6, <1>7

\* What is written is a task.
LEMMA NewTaskType ==
    ASSUME TypeInv, NEW h \in Handlers, pc[h] = "commit", ~Gone(h)
    PROVE  NewTask(h) \in Task
  <1> DEFINE r == req[h]  b == r.body
  <1>1. b \in Body /\ r.task \in Tasks /\ r.op \in {"create", "update"}
    BY DEF TypeInv, Ready
  <1>2. CASE r.op = "create"
    <2>1. \A f \in Fields : b[f] # None
      BY <1>2 DEF TypeInv, Ready, Full, Fields
    <2>2. /\ b["name"] \in Names /\ b["discriminator"] \in Kinds /\ b["schedule_id"] \in Ids
          /\ b["enabled"] \in BOOLEAN /\ b["one_off"] \in BOOLEAN /\ b["args"] \in BOOLEAN
          /\ b["kwargs"] \in BOOLEAN
      BY <1>1, <2>1, BodyFields, Zenon DEF Optional, Fields
    <2>3. b \in Task
      BY <1>1, <2>2, BodyFields, FieldsTask
    <2> QED BY <1>2, <2>3 DEF NewTask
  <1>3. CASE r.op = "update"
    <2> DEFINE now == tasks[r.task]  e == Updated(h)
    <2>1. now \in Task
      BY <1>1, <1>3 DEF TypeInv, TypeOK, Optional, Gone
    <2>2. e = [f \in Fields |-> IF b[f] \in {None, loaded[h][f]} THEN now[f] ELSE b[f]]
      BY <2>1, TaskFields DEF Updated
    <2>3. e = [f \in Fields |-> e[f]] /\ \A f \in Fields : e[f] = now[f] \/ (e[f] = b[f] /\ b[f] # None)
      <3> HIDE DEF e
      <3> QED BY <2>2
    <2>4. /\ e["name"] \in Names /\ e["discriminator"] \in Kinds /\ e["schedule_id"] \in Ids
          /\ e["enabled"] \in BOOLEAN /\ e["one_off"] \in BOOLEAN /\ e["args"] \in BOOLEAN
          /\ e["kwargs"] \in BOOLEAN
      <3> HIDE DEF e, now, b
      <3> QED BY <1>1, <2>1, <2>3, TaskFields, BodyFields, Zenon DEF Optional, Fields
    <2>5. e \in Task
      BY <2>3, <2>4, FieldsTask
    <2>6. NewTask(h) = e
      BY <1>3 DEF NewTask
    <2> QED BY <2>5, <2>6
  <1> QED BY <1>1, <1>2, <1>3

Answers == Optional([error : BOOLEAN, wrote : BOOLEAN, task : Optional(Tasks), overtaken : BOOLEAN])

LEMMA ReplyType ==
    ASSUME TypeInv, NEW h \in Handlers, pc[h] # "idle", NEW e \in BOOLEAN, NEW w \in BOOLEAN, Reply(h, e, w)
    PROVE  pc' = [pc EXCEPT ![h] = "idle"] /\ answer' \in Answers
  <1>1. req[h].task \in Optional(Tasks) /\ overtaken[h] \in BOOLEAN
    BY DEF TypeInv, TypeOK, Ready, Request
  <1>2. answer' = [error |-> e, wrote |-> w, task |-> req[h].task, overtaken |-> overtaken[h]]
    BY DEF Reply
  <1>3. answer' \in [error : BOOLEAN, wrote : BOOLEAN, task : Optional(Tasks), overtaken : BOOLEAN]
    BY <1>1, <1>2, Zenon
  <1> QED BY <1>3 DEF Reply, Goto, Answers, Optional

LEMMA GoOnType ==
    ASSUME NEW h \in Handlers, NEW place, GoOn(h, place)
    PROVE  pc' = [pc EXCEPT ![h] = place] /\ answer' \in Answers
  BY DEF GoOn, Goto, Answers, Optional

\* A step of one handler, which touches no other's request.
Moves(h, place) ==
    /\ pc' = [pc EXCEPT ![h] = place] /\ place \in Places
    /\ answer' \in Answers /\ UNCHANGED <<req, requests>>
    /\ loaded' \in [Handlers -> Optional(Task)] /\ made' \in [Handlers -> Optional(Pointer)]
    /\ \A g \in Handlers : g # h => loaded'[g] = loaded[g] /\ made'[g] = made[g]

TablesOK ==
    /\ schedules \in [Pointer -> Optional(Schedule)]
    /\ used \in [Kinds -> 0..MaxSchedules]
    /\ tasks \in [Tasks -> Optional(Task)]
    /\ overtaken \in [Handlers -> BOOLEAN] /\ relinked \in [Handlers -> BOOLEAN]
    /\ loose \subseteq Pointer /\ astray \subseteq Tasks /\ deleted \subseteq Tasks

LEMMA TypeMoves ==
    ASSUME TypeInv, NEW h \in Handlers, NEW place, Moves(h, place), TablesOK', Ready(h)'
    PROVE  TypeInv'
  <1>1. TypeOK'
    BY DEF TypeInv, TypeOK, Moves, TablesOK, Answers
  <1>2. ASSUME NEW g \in Handlers, g # h PROVE Ready(g)'
    BY <1>2 DEF TypeInv, TypeOK, Moves, Ready
  <1> QED BY <1>1, <1>2 DEF TypeInv

\* The queries, which change nothing but the handler's own state.
Query(h) ==
    \/ Find(h) \/ RefreshSchedule(h) \/ Look(h) \/ CheckName(h) \/ Load(h) \/ Link(h)
    \/ CommitFails(h) \/ Respond(h) \/ GetTask(h)

LEMMA QueryFrame ==
    ASSUME NEW h \in Handlers, Query(h)
    PROVE  UNCHANGED <<schedules, used, tasks, req, made, overtaken, loose, astray, deleted, relinked,
                       requests>>
  BY DEF Query, Find, RefreshSchedule, Look, CheckName, Load, Link, CommitFails, Respond, GetTask,
         tables, held, history

\* Where a query goes.
LEMMA QueryMoves ==
    ASSUME TypeInv, NEW h \in Handlers, Query(h)
    PROVE  /\ pc[h] # "idle" /\ answer' \in Answers
           /\ \/ pc' = [pc EXCEPT ![h] = "idle"]
              \/ pc[h] = "find" /\ pc' = [pc EXCEPT ![h] = "insert"]
              \/ pc[h] = "look" /\ pc' = [pc EXCEPT ![h] = "remove"]
              \/ pc[h] = "name" /\ pc' = [pc EXCEPT ![h] = "link"]
              \/ /\ pc[h] = "load" /\ tasks[req[h].task] # None
                 /\ req[h].body.schedule_id = None /\ pc' = [pc EXCEPT ![h] = "commit"]
              \/ /\ pc[h] = "load" /\ tasks[req[h].task] # None
                 /\ req[h].body.schedule_id # None /\ pc' = [pc EXCEPT ![h] = "link"]
              \/ /\ pc[h] = "link" /\ schedules[PointerOf(req[h].body)] # None
                 /\ pc' = [pc EXCEPT ![h] = "commit"]
              \/ pc[h] = "get" /\ pc' = [pc EXCEPT ![h] = "delete"]
           /\ pc[h] # "load" => loaded' = loaded
           /\ pc[h] = "load" => loaded' = [loaded EXCEPT ![h] = tasks[req[h].task]]
  <1>1. CASE Find(h)
    BY <1>1, ReplyType, GoOnType DEF Find, Is, held
  <1>2. CASE Look(h)
    BY <1>2, ReplyType, GoOnType DEF Look, Is, held
  <1>3. CASE CheckName(h)
    BY <1>3, ReplyType, GoOnType DEF CheckName, Is, held
  <1>4. CASE Load(h)
    <2>1. CASE tasks[req[h].task] = None
      BY <1>4, <2>1, ReplyType DEF Load, Is
    <2>2. CASE tasks[req[h].task] # None
      BY <1>4, <2>2, GoOnType DEF Load, Is
    <2> QED BY <2>1, <2>2
  <1>5. CASE Link(h)
    BY <1>5, ReplyType, GoOnType DEF Link, Is, held
  <1>6. CASE CommitFails(h)
    BY <1>6, ReplyType DEF CommitFails, Is, held
  <1>7. CASE Respond(h)
    <2> DEFINE e == schedules[PointerOf(loaded[h])] = None
    <2>1. e \in BOOLEAN
      OBVIOUS
    <2>2. Reply(h, e, TRUE) /\ pc[h] = "respond" /\ loaded' = loaded
      BY <1>7 DEF Respond, Is, held
    <2> HIDE DEF e
    <2> QED BY <2>1, <2>2, ReplyType
  <1>8. CASE GetTask(h)
    BY <1>8, ReplyType, GoOnType DEF GetTask, Is, held
  <1>9. CASE RefreshSchedule(h)
    <2> DEFINE e == schedules[made[h]] = None
    <2>1. e \in BOOLEAN
      OBVIOUS
    <2>2. Reply(h, e, TRUE) /\ pc[h] = "stored" /\ loaded' = loaded
      BY <1>9 DEF RefreshSchedule, Is, held
    <2> HIDE DEF e
    <2> QED BY <2>1, <2>2, ReplyType
  <1> QED BY <1>1, <1>2, <1>3, <1>4, <1>5, <1>6, <1>7, <1>8, <1>9 DEF Query

LEMMA TypeQuery == ASSUME TypeInv, NEW h \in Handlers, Query(h) PROVE TypeInv'
  <1> DEFINE place == pc'[h]
  <1>1. pc[h] \in Places
    BY DEF TypeInv, TypeOK
  <1>2. pc' = [pc EXCEPT ![h] = place] /\ place \in Places
    BY <1>1, QueryMoves DEF Places, TypeInv, TypeOK
  <1>3. loaded' \in [Handlers -> Optional(Task)] /\ \A g \in Handlers : g # h => loaded'[g] = loaded[g]
    BY QueryMoves DEF TypeInv, TypeOK, Ready
  <1>7. made' \in [Handlers -> Optional(Pointer)] /\ made' = made
    BY QueryFrame DEF TypeInv, TypeOK
  <1>4. TablesOK'
    BY QueryFrame DEF TypeInv, TypeOK, TablesOK
  <1>5. Moves(h, place)
    BY <1>2, <1>3, <1>7, QueryMoves, QueryFrame DEF Moves
  <1>6. Ready(h)'
    <2>1. CASE place = "idle"
      BY <2>1 DEF Ready
    <2>2. CASE pc[h] \in {"find", "look", "get"} /\ place \in {"insert", "remove", "delete"}
      BY <2>2, QueryMoves, QueryFrame DEF TypeInv, TypeOK, Ready
    <2>5. CASE pc[h] = "name" /\ place = "link"
      <3>1. req[h].body \in Body /\ Full(req[h].body) /\ req[h].op = "create" /\ req[h].task \in Tasks
            /\ req[h] \in Request /\ Paired(req[h].body)
        BY <2>5 DEF TypeInv, Ready
      <3>2. PointerOf(req[h].body) \in Pointer
        BY <3>1, BodyPointer DEF Full
      <3> QED BY <2>5, <3>1, <3>2, QueryMoves, QueryFrame DEF TypeInv, TypeOK, Ready
    <2>3. CASE pc[h] = "load" /\ place \in {"commit", "link"}
      <3>1. req[h].body \in Body /\ req[h].op = "update" /\ req[h].task \in Tasks /\ req[h] \in Request
            /\ Paired(req[h].body)
        BY <2>3 DEF TypeInv, Ready
      <3>2. tasks[req[h].task] # None /\ loaded' = [loaded EXCEPT ![h] = tasks[req[h].task]]
            /\ (place = "link" => req[h].body.schedule_id # None)
        BY <2>3, QueryMoves DEF TypeInv, TypeOK
      <3>3. tasks[req[h].task] \in Task
        BY <3>1, <3>2 DEF TypeInv, TypeOK, Optional
      <3>4. req[h].body.schedule_id # None => PointerOf(req[h].body) \in Pointer
        BY <3>1, BodyPointer
      <3>5. loaded'[h] \in Task
        BY <3>2, <3>3 DEF TypeInv, TypeOK
      <3> QED BY <2>3, <3>1, <3>2, <3>4, <3>5, QueryFrame DEF Ready
    <2>4. CASE pc[h] = "link" /\ place = "commit"
      BY <2>4, QueryMoves, QueryFrame DEF TypeInv, Ready
    <2> QED BY <2>1, <2>2, <2>3, <2>4, <2>5, QueryMoves DEF TypeInv, TypeOK
  <1> QED BY <1>4, <1>5, <1>6, TypeMoves

LEMMA TypeBegin == ASSUME TypeInv, NEW h \in Handlers, Begin(h) PROVE TypeInv'
  <1>1. PICK r \in Sent : req' = [req EXCEPT ![h] = r] /\ GoOn(h, First(r.op))
    BY DEF Begin
  <1>2. r \in Request /\ r.op \in {"add", "remove", "create", "update", "delete"}
    BY SentForms, Zenon
  <1>3. First(r.op) \in Places
    BY <1>2 DEF First, Places
  <1>4. pc' = [pc EXCEPT ![h] = First(r.op)] /\ answer' \in Answers
    BY <1>1, GoOnType
  <1>5. req' \in [Handlers -> Optional(Request)] /\ pc' \in [Handlers -> Places]
    BY <1>1, <1>2, <1>3, <1>4 DEF TypeInv, TypeOK, Optional
  <1>6. /\ loaded' \in [Handlers -> Optional(Task)] /\ made' \in [Handlers -> Optional(Pointer)]
        /\ overtaken' \in [Handlers -> BOOLEAN] /\ relinked' \in [Handlers -> BOOLEAN]
        /\ requests' \in 0..MaxRequests
    BY BeatAssumption DEF Begin, TypeInv, TypeOK, Optional
  <1>7. TypeOK'
    BY <1>4, <1>5, <1>6 DEF TypeInv, TypeOK, Begin, tables, Answers
  <1>8. Ready(h)'
    <2>1. pc'[h] = First(r.op) /\ req'[h] = r
      BY <1>1, <1>4 DEF TypeInv, TypeOK
    <2>2. CASE r.op = "add" /\ r.spec \in Wanted
      BY <1>2, <2>1, <2>2 DEF Ready, First
    <2>3. CASE r.op = "remove" /\ r.at \in Pointer
      BY <1>2, <2>1, <2>3 DEF Ready, First
    <2>4. CASE r.op = "create" /\ r.task \in Tasks /\ r.body \in Body /\ Paired(r.body) /\ Full(r.body)
      BY <1>2, <2>1, <2>4 DEF Ready, First
    <2>5. CASE r.op = "update" /\ r.task \in Tasks /\ r.body \in Body /\ Paired(r.body)
      BY <1>2, <2>1, <2>5 DEF Ready, First
    <2>6. CASE r.op = "delete" /\ r.task \in Tasks
      BY <1>2, <2>1, <2>6 DEF Ready, First
    <2> QED BY <2>2, <2>3, <2>4, <2>5, <2>6, SentForms, Zenon
  <1>9. ASSUME NEW g \in Handlers, g # h PROVE Ready(g)'
    <2>1. pc'[g] = pc[g] /\ req'[g] = req[g] /\ loaded'[g] = loaded[g] /\ made'[g] = made[g]
      BY <1>1, <1>4, <1>9 DEF TypeInv, TypeOK, Begin
    <2>2. Ready(g)
      BY DEF TypeInv
    <2> QED BY <2>1, <2>2 DEF Ready
  <1> QED BY <1>7, <1>8, <1>9 DEF TypeInv

\* A step that answers.
LEMMA TypeAnswers ==
    ASSUME TypeInv, NEW h \in Handlers, pc[h] # "idle", NEW e \in BOOLEAN, NEW w \in BOOLEAN, Reply(h, e, w),
           UNCHANGED <<held, requests>>, TablesOK'
    PROVE  TypeInv'
  <1>1. Moves(h, "idle")
    BY ReplyType DEF Moves, Places, TypeInv, TypeOK, held
  <1>2. Ready(h)'
    BY <1>1 DEF Moves, Ready, TypeInv, TypeOK
  <1> QED BY <1>1, <1>2, TypeMoves

LEMMA TypeInsert == ASSUME TypeInv, NEW h \in Handlers, Insert(h) PROVE TypeInv'
  <1> DEFINE s == req[h].spec  p == <<s.kind, used[s.kind] + 1>>
  <1>1. s \in Wanted /\ s.kind \in Kinds /\ used[s.kind] \in Nat /\ used[s.kind] < MaxSchedules
    BY BeatAssumption DEF Insert, Is, TypeInv, TypeOK, Ready, Wanted
  <1>2. p \in Pointer
    BY <1>1, BeatAssumption DEF Pointer, Ids
  <1>3. Stored(s) \in Schedule
    BY <1>1 DEF Stored, Schedule, Wanted, Optional, Zones
  <1>4. /\ schedules' = [schedules EXCEPT ![p] = Stored(s)] /\ used' = [used EXCEPT ![s.kind] = @ + 1]
        /\ loose' \in {loose, loose \cup {p}} /\ GoOn(h, "stored") /\ pc[h] = "insert"
        /\ made' = [made EXCEPT ![h] = p]
        /\ UNCHANGED <<tasks, req, loaded, astray, deleted, relinked, requests>>
    BY DEF Insert, Is
  <1>5. overtaken' \in [Handlers -> BOOLEAN]
    <2>1. overtaken' = [g \in Handlers |-> g # h /\ (overtaken[g] \/ pc[g] = "insert")]
      BY DEF Insert, Is
    <2> QED BY <2>1
  <1>6. used' \in [Kinds -> 0..MaxSchedules]
    BY <1>1, <1>4, BeatAssumption DEF TypeInv, TypeOK
  <1>7. TablesOK'
    <2>1. schedules' \in [Pointer -> Optional(Schedule)]
      <3> HIDE DEF p
      <3> QED BY <1>2, <1>3, <1>4 DEF TypeInv, TypeOK, Optional
    <2> QED BY <1>2, <1>4, <1>5, <1>6, <2>1 DEF TypeInv, TypeOK, TablesOK
  <1>8. Moves(h, "stored") /\ made'[h] \in Pointer
    <2> HIDE DEF p
    <2>1. made' \in [Handlers -> Optional(Pointer)] /\ made'[h] = p
          /\ \A g \in Handlers : g # h => made'[g] = made[g]
      BY <1>2, <1>4 DEF TypeInv, TypeOK, Optional
    <2> QED BY <1>2, <1>4, <2>1, GoOnType DEF Moves, Places, TypeInv, TypeOK
  <1>9. Ready(h)'
    BY <1>4, <1>8 DEF Moves, Ready, TypeInv, TypeOK
  <1> QED BY <1>7, <1>8, <1>9, TypeMoves

LEMMA TypeRemove == ASSUME TypeInv, NEW h \in Handlers, Remove(h) PROVE TypeInv'
  <1> DEFINE p == req[h].at
  <1>1. p \in Pointer /\ pc[h] = "remove" /\ UNCHANGED <<held, requests>>
    BY DEF Remove, Is, TypeInv, Ready
  <1>2. CASE Reply(h, TRUE, FALSE) /\ UNCHANGED <<tables, history, overtaken>>
    <2>1. TablesOK'
      BY <1>2 DEF TypeInv, TypeOK, TablesOK, tables, history
    <2> QED BY <1>1, <1>2, <2>1, TypeAnswers
  <1>3. CASE /\ Reply(h, FALSE, TRUE) /\ schedules' = [schedules EXCEPT ![p] = None]
             /\ tasks' \in {tasks, [t \in Tasks |-> IF t \in At(p) THEN None ELSE tasks[t]]}
             /\ astray' \in {astray, astray \cup At(p)} /\ deleted' \in {deleted, deleted \cup At(p)}
             /\ overtaken' = [g \in Handlers |-> overtaken[g] \/ Uses(g, p)]
             /\ UNCHANGED <<used, loose, relinked>>
    <2>1. schedules' \in [Pointer -> Optional(Schedule)] /\ tasks' \in [Tasks -> Optional(Task)]
      BY <1>1, <1>3 DEF TypeInv, TypeOK, Optional
    <2>2. overtaken' \in [Handlers -> BOOLEAN]
      BY <1>3
    <2>3. astray' \subseteq Tasks /\ deleted' \subseteq Tasks
      BY <1>3 DEF TypeInv, TypeOK, At
    <2>4. TablesOK'
      BY <1>3, <2>1, <2>2, <2>3 DEF TypeInv, TypeOK, TablesOK
    <2> QED BY <1>1, <1>3, <2>4, TypeAnswers
  <1> QED BY <1>2, <1>3 DEF Remove

\* What a commit does to the history of its task.
LEMMA CommitHistory ==
    ASSUME TypeInv, NEW h \in Handlers, Commit(h)
    PROVE  /\ req[h].task \in Tasks /\ req[h].body \in Body /\ pc[h] = "commit"
           /\ astray' = IF req[h].body.schedule_id = None THEN astray
                        ELSE IF overtaken[h] \/ relinked[h] THEN astray \cup {req[h].task}
                        ELSE astray \ {req[h].task}
           /\ relinked' \in [Handlers -> BOOLEAN]
           /\ \A g \in Handlers : relinked[g] = TRUE => relinked'[g] = TRUE
           /\ \A g \in Handlers :
                 /\ g # h /\ pc[g] \in {"link", "commit"} /\ req[g].task = req[h].task
                 /\ req[h].op = "create" \/ PointerOf(NewTask(h)) # PointerOf(tasks[req[h].task])
                 => relinked'[g] = TRUE
  <1>1. req[h].task \in Tasks /\ req[h].body \in Body /\ pc[h] = "commit"
    BY DEF Commit, Is, TypeInv, Ready
  <1>2. astray' = IF req[h].body.schedule_id = None THEN astray
                  ELSE IF overtaken[h] \/ relinked[h] THEN astray \cup {req[h].task}
                  ELSE astray \ {req[h].task}
    BY DEF Commit
  <1> DEFINE moves == req[h].op = "create" \/ PointerOf(NewTask(h)) # PointerOf(tasks[req[h].task])
  <1>3. relinked' = [g \in Handlers |->
            relinked[g] \/ (g # h /\ pc[g] \in {"link", "commit"} /\ req[g].task = req[h].task /\ moves)]
    BY DEF Commit
  <1> HIDE DEF moves
  <1>4. /\ relinked' \in [Handlers -> BOOLEAN]
        /\ \A g \in Handlers : relinked[g] = TRUE => relinked'[g] = TRUE
        /\ \A g \in Handlers :
              g # h /\ pc[g] \in {"link", "commit"} /\ req[g].task = req[h].task /\ moves => relinked'[g] = TRUE
    BY <1>3 DEF TypeInv, TypeOK
  <1> QED BY <1>1, <1>2, <1>4 DEF moves

LEMMA TypeCommit == ASSUME TypeInv, NEW h \in Handlers, Commit(h) PROVE TypeInv'
  <1> DEFINE t == req[h].task
  <1>1. t \in Tasks /\ pc[h] = "commit" /\ req[h] \in Request
    BY DEF Commit, Is, TypeInv, Ready
  <1>2. NewTask(h) \in Task
    BY <1>1, NewTaskType DEF Commit
  <1>3. Moves(h, "refresh")
    BY GoOnType DEF Commit, Moves, Places, TypeInv, TypeOK, held
  <1>4. TablesOK'
    <2>1. tasks' \in [Tasks -> Optional(Task)]
      BY <1>1, <1>2 DEF Commit, TypeInv, TypeOK, Optional
    <2>2. UNCHANGED <<schedules, used, overtaken, loose, deleted>>
      BY DEF Commit
    <2>3. astray' \subseteq Tasks /\ relinked' \in [Handlers -> BOOLEAN]
      BY <1>1, CommitHistory DEF TypeInv, TypeOK
    <2> QED BY <2>1, <2>2, <2>3 DEF TypeInv, TypeOK, TablesOK
  <1>5. Ready(h)'
    BY <1>1, <1>3 DEF Ready, Moves, TypeInv, TypeOK
  <1> QED BY <1>3, <1>4, <1>5, TypeMoves

\* The refresh of a task.
LEMMA RefreshForm ==
    ASSUME TypeInv, NEW h \in Handlers, RefreshTask(h)
    PROVE  /\ pc[h] = "refresh" /\ req[h].task \in Tasks /\ req[h] \in Request
           /\ \/ tasks[req[h].task] = None /\ pc' = [pc EXCEPT ![h] = "idle"]
              \/ tasks[req[h].task] # None /\ pc' = [pc EXCEPT ![h] = "respond"]
           /\ answer' \in Answers
           /\ loaded' = [loaded EXCEPT ![h] = tasks[req[h].task]]
           /\ overtaken' \in [Handlers -> BOOLEAN] /\ (overtaken'[h] = FALSE => req[h].task \notin astray)
           /\ \A g \in Handlers : g # h => overtaken'[g] = overtaken[g]
           /\ UNCHANGED <<schedules, used, tasks, req, made, loose, astray, deleted, relinked, requests>>
  <1>1. pc[h] = "refresh" /\ req[h].task \in Tasks /\ req[h] \in Request
    BY DEF RefreshTask, Is, TypeInv, Ready
  <1>4. /\ overtaken' \in [Handlers -> BOOLEAN] /\ (overtaken'[h] = FALSE => req[h].task \notin astray)
        /\ \A g \in Handlers : g # h => overtaken'[g] = overtaken[g]
    <2> DEFINE found == req[h].task \in astray
    <2>1. overtaken' = [overtaken EXCEPT ![h] = found]
      BY DEF RefreshTask
    <2>2. found \in BOOLEAN
      OBVIOUS
    <2>3. /\ overtaken' \in [Handlers -> BOOLEAN] /\ overtaken'[h] = found
          /\ \A g \in Handlers : g # h => overtaken'[g] = overtaken[g]
      <3> HIDE DEF found
      <3> QED BY <2>1, <2>2 DEF TypeInv, TypeOK
    <2> QED BY <2>3
  <1>5. /\ loaded' = [loaded EXCEPT ![h] = tasks[req[h].task]]
        /\ UNCHANGED <<schedules, used, tasks, req, made, loose, astray, deleted, relinked, requests>>
    BY DEF RefreshTask, tables, history
  <1>2. CASE tasks[req[h].task] = None
    <2>1. Reply(h, TRUE, TRUE)
      BY <1>2 DEF RefreshTask
    <2>2. pc' = [pc EXCEPT ![h] = "idle"] /\ answer' \in Answers
      BY <1>1, <2>1, ReplyType
    <2> QED BY <1>1, <1>2, <1>4, <1>5, <2>1, <2>2
  <1>3. CASE tasks[req[h].task] # None
    <2>1. GoOn(h, "respond")
      BY <1>3 DEF RefreshTask
    <2>2. pc' = [pc EXCEPT ![h] = "respond"] /\ answer' \in Answers
      BY <2>1, GoOnType
    <2> QED BY <1>1, <1>3, <1>4, <1>5, <2>1, <2>2
  <1> QED BY <1>2, <1>3

LEMMA TypeRefresh == ASSUME TypeInv, NEW h \in Handlers, RefreshTask(h) PROVE TypeInv'
  <1> DEFINE place == pc'[h]  t == req[h].task
  <1>6. /\ \/ tasks[t] = None /\ pc' = [pc EXCEPT ![h] = "idle"]
           \/ tasks[t] # None /\ pc' = [pc EXCEPT ![h] = "respond"]
        /\ t \in Tasks /\ loaded' = [loaded EXCEPT ![h] = tasks[t]]
    BY RefreshForm
  <1>1. pc' = [pc EXCEPT ![h] = place] /\ place \in {"idle", "respond"}
    BY <1>6 DEF TypeInv, TypeOK
  <1>2. loaded' \in [Handlers -> Optional(Task)] /\ \A g \in Handlers : g # h => loaded'[g] = loaded[g]
    <2> HIDE DEF t
    <2> QED BY <1>6 DEF TypeInv, TypeOK
  <1>3. Moves(h, place)
    BY <1>1, <1>2, RefreshForm DEF Moves, Places, TypeInv, TypeOK
  <1>4. TablesOK'
    BY RefreshForm DEF TypeInv, TypeOK, TablesOK
  <1>5. Ready(h)'
    <2>1. place = "respond" => loaded'[h] \in Task
      BY <1>6 DEF TypeInv, TypeOK, Optional
    <2> QED BY <1>1, <2>1, RefreshForm DEF Ready
  <1> QED BY <1>3, <1>4, <1>5, TypeMoves

LEMMA TypeDelete == ASSUME TypeInv, NEW h \in Handlers, Delete(h) PROVE TypeInv'
  <1>1. req[h].task \in Tasks /\ pc[h] = "delete"
    BY DEF Delete, Is, TypeInv, Ready
  <1>2. Reply(h, FALSE, TRUE) /\ UNCHANGED <<held, requests>>
    BY DEF Delete
  <1>3. TablesOK'
    BY <1>1 DEF Delete, TypeInv, TypeOK, TablesOK, Optional
  <1> QED BY <1>1, <1>2, <1>3, TypeAnswers

LEMMA TypeInit == Init => TypeInv
  <1> SUFFICES ASSUME Init PROVE TypeInv
    OBVIOUS
  <1>1. PICK g \in Given : schedules = g.schedules /\ used = g.used /\ tasks = g.tasks
    BY DEF Init
  <1>3. TypeOK
    BY <1>1, BeatAssumption, GivenAssumption DEF Init, TypeOK, Optional, Places
  <1>2. \A h \in Handlers : Ready(h)
    BY DEF Init, Ready
  <1> QED BY <1>2, <1>3 DEF TypeInv

\* What a step of the system is.
LEMMA StepForms ==
    ASSUME Next
    PROVE  \E h \in Handlers :
               Query(h) \/ Begin(h) \/ Insert(h) \/ Remove(h) \/ Commit(h) \/ RefreshTask(h) \/ Delete(h)
  BY Zenon DEF Next, Query

LEMMA TypeNext == TypeInv /\ [Next]_vars => TypeInv'
  <1> SUFFICES ASSUME TypeInv, [Next]_vars PROVE TypeInv'
    OBVIOUS
  <1>1. CASE Next
    BY <1>1, StepForms, TypeQuery, TypeBegin, TypeInsert, TypeRemove, TypeCommit, TypeRefresh,
       TypeDelete
  <1>2. CASE UNCHANGED vars
    BY <1>2 DEF vars, tables, held, history, TypeInv, TypeOK, Ready, Full
  <1> QED BY <1>1, <1>2

\* The types, and what a request holds at each place: no field is read of a request that
\* does not have it, whatever the schemas let through.
THEOREM TypeCorrect == Spec => []TypeOK
  <1>1. TypeInv => TypeOK
    BY DEF TypeInv
  <1> QED BY <1>1, TypeInit, TypeNext, PTL DEF Spec

-----------------------------------------------------------------------------
(* Which schedules are stored twice.                                       *)

\* A request that is about to insert, and has not been overtaken, has found nothing that
\* is still not there.
NothingFound ==
    \A h \in Handlers : pc[h] = "insert" /\ overtaken[h] = FALSE =>
        \A p \in Pointer : p[1] = req[h].spec.kind => ~Same(p, req[h].spec)

OnceInv == NothingFound /\ SchedulesOnce

LEMMA OnceInsert ==
    ASSUME TypeInv, OnceInv, NEW h \in Handlers, Insert(h) PROVE OnceInv'
  <1> DEFINE s == req[h].spec  i == <<s.kind, used[s.kind] + 1>>
  <1>1. s \in Wanted /\ pc[h] = "insert"
    BY DEF Insert, Is, TypeInv, Ready
  <1>2. /\ schedules' = [schedules EXCEPT ![i] = Stored(s)]
        /\ loose' = (IF overtaken[h] THEN loose \cup {i} ELSE loose)
        /\ overtaken' = [g \in Handlers |-> g # h /\ (overtaken[g] \/ pc[g] = "insert")]
        /\ pc' = [pc EXCEPT ![h] = "stored"]
    BY DEF Insert, Is, GoOn, Goto
  <1>3. i[1] = s.kind
    OBVIOUS
  <1>4. NothingFound'
    <2> SUFFICES ASSUME NEW g \in Handlers, pc'[g] = "insert", overtaken'[g] = FALSE PROVE FALSE
      BY DEF NothingFound
    <2>1. g # h /\ pc[g] = "insert"
      BY <1>2 DEF TypeInv, TypeOK
    <2>2. overtaken'[g] = TRUE
      BY <1>2, <2>1
    <2> QED BY <2>2
  <1>5. overtaken[h] = TRUE => i \in loose'
    BY <1>2
  <1>6. loose \subseteq loose'
    BY <1>2
  <1>7. ASSUME NEW q \in Pointer, q # i, q[1] = s.kind, schedules[q] # None, schedules[q] = Stored(s),
               overtaken[h] = FALSE
        PROVE  s.kind = "crontabschedule" /\ Stored(s).zone = TableZone /\ TableZone # Zone
    <2>1. ~Same(q, s)
      BY <1>1, <1>7 DEF OnceInv, NothingFound
    <2>2. schedules[q].time = s.time
      BY <1>7 DEF Stored
    <2>3. schedules[q].zone # (IF s.kind = "crontabschedule" /\ s.zone = None THEN Zone ELSE s.zone)
      BY <1>7, <2>1, <2>2 DEF Same
    <2>4. schedules[q].zone = (IF s.kind = "crontabschedule" /\ s.zone = None THEN TableZone ELSE s.zone)
      BY <1>7 DEF Stored
    <2> QED BY <1>7, <2>3, <2>4
  <1>8. ASSUME NEW p \in Pointer, NEW q \in Pointer, p # q, p[1] = q[1],
               schedules'[p] # None, schedules'[p] = schedules'[q]
        PROVE  \/ p \in loose' \/ q \in loose'
               \/ p[1] = "crontabschedule" /\ schedules'[p].zone = TableZone /\ TableZone # Zone
    <2> HIDE DEF i
    <2>0. \A r \in Pointer : schedules'[r] = IF r = i THEN Stored(s) ELSE schedules[r]
      BY <1>2 DEF TypeInv, TypeOK
    <2>3. overtaken[h] \in BOOLEAN
      BY DEF TypeInv, TypeOK
    <2>1. CASE p = i
      <3>1. schedules'[p] = Stored(s) /\ schedules[q] = Stored(s) /\ schedules[q] # None /\ q # i /\ q[1] = s.kind
        BY <1>3, <1>8, <2>0, <2>1
      <3>2. CASE overtaken[h] = FALSE
        BY <1>3, <1>7, <2>1, <3>1, <3>2
      <3>3. CASE overtaken[h] = TRUE
        BY <1>5, <2>1, <3>3
      <3> QED BY <2>3, <3>2, <3>3
    <2>2. CASE q = i
      <3>1. schedules'[p] = Stored(s) /\ schedules[p] = Stored(s) /\ schedules[p] # None /\ p # i /\ p[1] = s.kind
        BY <1>3, <1>8, <2>0, <2>2
      <3>2. CASE overtaken[h] = FALSE
        BY <1>3, <1>7, <2>2, <3>1, <3>2
      <3>3. CASE overtaken[h] = TRUE
        BY <1>5, <2>2, <3>3
      <3> QED BY <2>3, <3>2, <3>3
    <2>4. CASE p # i /\ q # i
      <3>1. schedules'[p] = schedules[p] /\ schedules'[q] = schedules[q]
        BY <2>0, <2>4
      <3>2. \/ p \in loose \/ q \in loose
            \/ p[1] = "crontabschedule" /\ schedules[p].zone = TableZone /\ TableZone # Zone
        BY <1>8, <3>1, Zenon DEF OnceInv, SchedulesOnce
      <3> QED BY <1>6, <3>1, <3>2, Zenon
    <2> QED BY <2>1, <2>2, <2>4
  <1> QED BY <1>4, <1>8, Zenon DEF OnceInv, SchedulesOnce

\* Steps that add no schedule.
LEMMA OnceKept ==
    ASSUME TypeInv, OnceInv, loose' = loose,
           \A p \in Pointer : schedules'[p] \in {None, schedules[p]},
           \A h \in Handlers : pc'[h] = "insert" /\ overtaken'[h] = FALSE =>
               /\ req'[h] = req[h]
               /\ \/ pc[h] = "insert" /\ overtaken[h] = FALSE
                  \/ \A p \in Pointer : p[1] = req[h].spec.kind => ~Same(p, req[h].spec)
    PROVE  OnceInv'
  <1>1. SchedulesOnce'
    <2> SUFFICES ASSUME NEW p \in Pointer, NEW q \in Pointer, p # q, p[1] = q[1],
                        schedules'[p] # None, schedules'[p] = schedules'[q]
                 PROVE  \/ p \in loose \/ q \in loose
                        \/ p[1] = "crontabschedule" /\ schedules'[p].zone = TableZone /\ TableZone # Zone
      BY Zenon DEF SchedulesOnce
    <2>1. schedules'[p] = schedules[p] /\ schedules'[q] = schedules[q]
      OBVIOUS
    <2> QED BY <2>1, Zenon DEF OnceInv, SchedulesOnce
  <1>2. NothingFound'
    <2> SUFFICES ASSUME NEW h \in Handlers, pc'[h] = "insert", overtaken'[h] = FALSE,
                        NEW p \in Pointer, p[1] = req'[h].spec.kind, Same(p, req[h].spec)'
                 PROVE  FALSE
      BY Zenon DEF NothingFound
    <2>1. req'[h] = req[h] /\ ~Same(p, req[h].spec)
      BY Zenon DEF OnceInv, NothingFound
    <2>2. schedules'[p] = schedules[p]
      BY DEF Same
    <2> QED BY <2>1, <2>2 DEF Same
  <1> QED BY <1>1, <1>2 DEF OnceInv

LEMMA OnceQuery == ASSUME TypeInv, OnceInv, NEW h \in Handlers, Query(h) PROVE OnceInv'
  <1>1. UNCHANGED <<schedules, req, overtaken, loose>>
    BY QueryFrame
  <1>2. ASSUME pc'[h] = "insert"
        PROVE  \A p \in Pointer : p[1] = req[h].spec.kind => ~Same(p, req[h].spec)
    <2>1. pc[h] = "find"
      BY <1>2, QueryMoves DEF TypeInv, TypeOK
    <2>2. Find(h)
      BY <2>1 DEF Query, RefreshSchedule, Look, CheckName, Load, Link, CommitFails, Respond, GetTask, Is
    <2>3. ~\E p \in {req[h].spec.kind} \X Ids : Same(p, req[h].spec)
      BY <1>2, <2>2 DEF Find, Reply, Goto, TypeInv, TypeOK
    <2>4. \A p \in Pointer : p[1] = req[h].spec.kind => p \in {req[h].spec.kind} \X Ids
      BY DEF Pointer
    <2> QED BY <2>3, <2>4
  <1>3. \A g \in Handlers : g # h => pc'[g] = pc[g]
    BY QueryMoves DEF TypeInv, TypeOK
  <1> QED BY <1>1, <1>2, <1>3, OnceKept, Zenon

LEMMA OnceBegin == ASSUME TypeInv, OnceInv, NEW h \in Handlers, Begin(h) PROVE OnceInv'
  <1>1. PICK r \in Sent : req' = [req EXCEPT ![h] = r] /\ pc' = [pc EXCEPT ![h] = First(r.op)]
    BY DEF Begin, GoOn, Goto
  <1>2. First(r.op) # "insert"
    <2>1. r.op \in {"add", "remove", "create", "update", "delete"}
      BY SentForms, Zenon
    <2> QED BY <2>1 DEF First
  <1>3. pc'[h] # "insert" /\ \A g \in Handlers : g # h =>
            pc'[g] = pc[g] /\ req'[g] = req[g] /\ overtaken'[g] = overtaken[g]
    BY <1>1, <1>2 DEF TypeInv, TypeOK, Begin
  <1>4. UNCHANGED <<schedules, loose>>
    BY DEF Begin, tables
  <1> QED BY <1>3, <1>4, OnceKept, Zenon

LEMMA OnceRemove == ASSUME TypeInv, OnceInv, NEW h \in Handlers, Remove(h) PROVE OnceInv'
  <1>1. /\ schedules' \in {schedules, [schedules EXCEPT ![req[h].at] = None]}
        /\ pc' = [pc EXCEPT ![h] = "idle"] /\ req' = req /\ loose' = loose
    BY DEF Remove, Reply, Goto, tables, held, history
  <1>2. \A p \in Pointer : schedules'[p] \in {None, schedules[p]}
    BY <1>1 DEF TypeInv, TypeOK
  <1>3. \A g \in Handlers : overtaken'[g] = FALSE => overtaken[g] = FALSE
    <2>1. overtaken' = overtaken
          \/ overtaken' = [g \in Handlers |-> overtaken[g] \/ Uses(g, req[h].at)]
      BY DEF Remove
    <2> QED BY <2>1 DEF TypeInv, TypeOK
  <1>4. \A g \in Handlers : pc'[g] = "insert" => pc[g] = "insert"
    BY <1>1 DEF TypeInv, TypeOK
  <1> QED BY <1>1, <1>2, <1>3, <1>4, OnceKept, Zenon

LEMMA OnceOther ==
    ASSUME TypeInv, OnceInv, NEW h \in Handlers, Commit(h) \/ RefreshTask(h) \/ Delete(h) PROVE OnceInv'
  <1>1. UNCHANGED <<schedules, req, loose>>
    BY RefreshForm DEF Commit, Delete, held
  <1>2. \A g \in Handlers : pc'[g] = "insert" => pc[g] = "insert" /\ g # h
    BY RefreshForm DEF Commit, Delete, Reply, GoOn, Goto, TypeInv, TypeOK
  <1>3. \A g \in Handlers : g # h => overtaken'[g] = overtaken[g]
    BY RefreshForm DEF Commit, Delete, TypeInv, TypeOK
  <1> QED BY <1>1, <1>2, <1>3, OnceKept, Zenon

\* create_clocked_schedule and its like find a schedule that is there: two rows are the same
\* only if two requests raced, or if the zone is the one the schema's default did not find.
THEOREM StoredOnce == Spec => []SchedulesOnce
  <1>1. Init => OnceInv
    <2> SUFFICES ASSUME Init PROVE OnceInv
      OBVIOUS
    <2>1. PICK g \in Given : schedules = g.schedules
      BY DEF Init
    <2>2. SchedulesOnce
      BY <2>1, GivenAssumption, Zenon DEF SchedulesOnce
    <2> QED BY <2>2 DEF Init, OnceInv, NothingFound
  <1>2. TypeInv /\ OnceInv /\ [Next]_vars => OnceInv'
    <2> SUFFICES ASSUME TypeInv, OnceInv, [Next]_vars PROVE OnceInv'
      OBVIOUS
    <2>1. CASE Next
      BY <2>1, StepForms, OnceQuery, OnceBegin, OnceInsert, OnceRemove, OnceOther
    <2>2. CASE UNCHANGED vars
      BY <2>2 DEF vars, tables, held, history, OnceInv, NothingFound, SchedulesOnce, Same
    <2> QED BY <2>1, <2>2
  <1>3. OnceInv => SchedulesOnce
    BY DEF OnceInv
  <1> QED BY <1>1, <1>2, <1>3, TypeInit, TypeNext, PTL DEF Spec

-----------------------------------------------------------------------------
(* What an update writes.                                                  *)

\* Column by column.
LEMMA Columns ==
    ASSUME TypeInv, NEW h \in Handlers, Commit(h), req[h].op = "update", NEW f \in Fields
    PROVE  /\ tasks[req[h].task] \in Task
           /\ NewTask(h)[f] = IF req[h].body[f] \in {None, loaded[h][f]} THEN tasks[req[h].task][f]
                              ELSE req[h].body[f]
  <1>1. tasks[req[h].task] # None /\ req[h].task \in Tasks
    BY DEF Commit, Is, Gone, TypeInv, Ready
  <1>2. tasks[req[h].task] \in Task
    BY <1>1 DEF TypeInv, TypeOK, Optional
  <1>3. DOMAIN tasks[req[h].task] = Fields
    BY <1>2, TaskFields
  <1> QED BY <1>2, <1>3 DEF NewTask, Updated

LEMMA CommitAsked ==
    ASSUME TypeInv, NEW h \in Handlers, Commit(h), NEW t \in Tasks, tasks[t] # None,
           NEW f \in Fields, tasks'[t][f] # tasks[t][f]
    PROVE  pc[h] = "commit" /\ pc'[h] = "refresh" /\ req[h].task = t /\ req[h].body[f] = tasks'[t][f]
  <1>1. pc[h] = "commit" /\ pc'[h] = "refresh" /\ req[h].op \in {"create", "update"}
    BY DEF Commit, Is, GoOn, Goto, TypeInv, TypeOK, Ready
  <1>2. tasks' = [tasks EXCEPT ![req[h].task] = NewTask(h)]
    BY DEF Commit
  <1>3. req[h].task = t /\ tasks'[t] = NewTask(h)
    BY <1>2 DEF TypeInv, TypeOK
  <1>4. CASE req[h].op = "create"
    BY <1>1, <1>3, <1>4 DEF NewTask
  <1>5. CASE req[h].op = "update"
    BY <1>1, <1>3, <1>5, Columns
  <1> QED BY <1>1, <1>4, <1>5

\* Steps that write no task.
LEMMA TasksKept ==
    ASSUME TypeInv, NEW h \in Handlers, NEW t \in Tasks,
           Query(h) \/ Begin(h) \/ Insert(h) \/ Remove(h) \/ RefreshTask(h) \/ Delete(h)
    PROVE  tasks'[t] \in {None, tasks[t]}
  <1>1. CASE Query(h)
    BY <1>1, QueryFrame
  <1>2. CASE Begin(h) \/ Insert(h) \/ RefreshTask(h)
    BY <1>2, RefreshForm DEF Begin, Insert, tables
  <1>3. CASE Remove(h)
    <2>1. tasks' = tasks \/ tasks' = [k \in Tasks |-> IF k \in At(req[h].at) THEN None ELSE tasks[k]]
      BY <1>3 DEF Remove, tables
    <2> QED BY <2>1
  <1>4. CASE Delete(h)
    BY <1>4 DEF Delete, TypeInv, TypeOK
  <1> QED BY <1>1, <1>2, <1>3, <1>4

\* CRUDTask.update: whatever two updates overlap in, a column changes only by the request that
\* asks for it.
THEOREM UpdatesKeepOthers == Spec => OnlyAskedChanges
  <1> DEFINE Asked ==
        \A t \in Tasks : tasks[t] # None /\ tasks'[t] # None =>
            \A f \in DOMAIN tasks[t] : tasks'[t][f] # tasks[t][f] =>
                \E h \in Handlers : /\ Is(h, "commit") /\ pc'[h] = "refresh"
                                    /\ req[h].task = t /\ req[h].body[f] = tasks'[t][f]
  <1>1. TypeInv /\ [Next]_vars => [Asked]_vars
    <2> SUFFICES ASSUME TypeInv, Next, NEW t \in Tasks, tasks[t] # None, tasks'[t] # None,
                        NEW f \in DOMAIN tasks[t], tasks'[t][f] # tasks[t][f]
                 PROVE  \E h \in Handlers : /\ pc[h] = "commit" /\ pc'[h] = "refresh"
                                            /\ req[h].task = t /\ req[h].body[f] = tasks'[t][f]
      BY Zenon DEF Is
    <2>1. f \in Fields
      BY TaskFields DEF TypeInv, TypeOK, Optional
    <2>2. PICK h \in Handlers : Commit(h)
      BY StepForms, TasksKept
    <2> QED BY <2>1, <2>2, CommitAsked
  <1> QED BY <1>1, TypeInit, TypeNext, PTL DEF Spec, OnlyAskedChanges

\* A request that is about to link a task, and whose task no other has linked anew since it
\* was loaded, holds the pointer of the task.
Copies ==
    \A h \in Handlers :
        /\ pc[h] \in {"link", "commit"} /\ req[h].op = "update"
        /\ relinked[h] = FALSE /\ tasks[req[h].task] # None
        => PointerOf(loaded[h]) = PointerOf(tasks[req[h].task])

\* What a commit stores as the pointer.
LEMMA CommitPointer ==
    ASSUME TypeInv, Copies, NEW h \in Handlers, Commit(h)
    PROVE  /\ req[h].body.schedule_id = None =>
                 /\ req[h].op = "update" /\ tasks[req[h].task] # None
                 /\ PointerOf(NewTask(h)) = PointerOf(tasks[req[h].task])
           /\ req[h].body.schedule_id # None /\ relinked[h] = FALSE =>
                 PointerOf(NewTask(h)) = PointerOf(req[h].body)
  <1> DEFINE b == req[h].body  now == tasks[req[h].task]
  <1>1. pc[h] = "commit" /\ req[h].op \in {"create", "update"} /\ Paired(b)
    BY DEF Commit, Is, TypeInv, Ready
  <1>2. CASE req[h].op = "create"
    <2>1. NewTask(h) = b /\ b.schedule_id # None
      BY <1>1, <1>2 DEF NewTask, TypeInv, Ready, Full
    <2> QED BY <2>1
  <1>3. CASE req[h].op = "update"
    <2>1. /\ now \in Task
          /\ NewTask(h).discriminator = IF b.discriminator \in {None, loaded[h].discriminator}
                                        THEN now.discriminator ELSE b.discriminator
          /\ NewTask(h).schedule_id = IF b.schedule_id \in {None, loaded[h].schedule_id}
                                      THEN now.schedule_id ELSE b.schedule_id
      BY <1>3, Columns DEF Fields
    <2>2. now # None
      BY <2>1, BeatAssumption
    <2>3. CASE b.schedule_id = None
      BY <1>1, <1>3, <2>1, <2>2, <2>3 DEF Paired, PointerOf
    <2>4. CASE b.schedule_id # None /\ relinked[h] = FALSE
      <3>1. PointerOf(loaded[h]) = PointerOf(now)
        BY <1>1, <1>3, <2>2, <2>4 DEF Copies
      <3>2. loaded[h].discriminator = now.discriminator /\ loaded[h].schedule_id = now.schedule_id
        BY <3>1 DEF PointerOf
      <3> QED BY <1>1, <2>1, <2>4, <3>2 DEF Paired, PointerOf
    <2> QED BY <2>3, <2>4
  <1> QED BY <1>1, <1>2, <1>3

LEMMA CopiesKept ==
    ASSUME TypeInv, Copies, \A t \in Tasks : tasks'[t] \in {None, tasks[t]},
           \A h \in Handlers : pc'[h] \in {"link", "commit"} /\ relinked'[h] = FALSE =>
               /\ req'[h] = req[h] /\ req[h].task \in Tasks
               /\ \/ pc[h] \in {"link", "commit"} /\ relinked[h] = FALSE /\ loaded'[h] = loaded[h]
                  \/ req[h].op # "update"
                  \/ loaded'[h] = tasks'[req[h].task]
    PROVE  Copies'
  <1> SUFFICES ASSUME NEW h \in Handlers, pc'[h] \in {"link", "commit"}, req'[h].op = "update",
                      relinked'[h] = FALSE, tasks'[req'[h].task] # None
               PROVE  PointerOf(loaded'[h]) = PointerOf(tasks'[req'[h].task])
    BY Zenon DEF Copies, PointerOf
  <1>1. req'[h] = req[h] /\ tasks'[req[h].task] = tasks[req[h].task]
    OBVIOUS
  <1>2. CASE loaded'[h] = tasks'[req[h].task]
    BY <1>1, <1>2
  <1>3. CASE pc[h] \in {"link", "commit"} /\ relinked[h] = FALSE /\ loaded'[h] = loaded[h]
    BY <1>1, <1>3 DEF Copies
  <1> QED BY <1>1, <1>2, <1>3

LEMMA CopiesQuery == ASSUME TypeInv, Copies, NEW h \in Handlers, Query(h) PROVE Copies'
  <1>1. UNCHANGED <<tasks, req, relinked>>
    BY QueryFrame
  <1>2. \A g \in Handlers : g # h => pc'[g] = pc[g] /\ loaded'[g] = loaded[g]
    BY QueryMoves DEF TypeInv, TypeOK
  <1>3. \A g \in Handlers : pc[g] \in {"name", "load", "link", "commit"} => req[g].task \in Tasks
    BY DEF TypeInv, Ready
  <1>4. ASSUME pc'[h] \in {"link", "commit"}
        PROVE  /\ req[h].task \in Tasks
               /\ \/ pc[h] = "link" /\ loaded'[h] = loaded[h]
                  \/ req[h].op # "update"
                  \/ loaded'[h] = tasks[req[h].task]
    <2>1. pc[h] \in {"name", "load", "link"}
      BY <1>4, QueryMoves DEF TypeInv, TypeOK
    <2>2. CASE pc[h] = "name"
      BY <1>3, <2>2 DEF TypeInv, Ready
    <2>3. CASE pc[h] = "load"
      BY <1>3, <2>3, QueryMoves DEF TypeInv, TypeOK
    <2>4. CASE pc[h] = "link"
      BY <1>3, <2>4, QueryMoves
    <2> QED BY <2>1, <2>2, <2>3, <2>4
  <1>5. ASSUME NEW g \in Handlers, pc'[g] \in {"link", "commit"}, relinked'[g] = FALSE
        PROVE  /\ req'[g] = req[g] /\ req[g].task \in Tasks
               /\ \/ pc[g] \in {"link", "commit"} /\ relinked[g] = FALSE /\ loaded'[g] = loaded[g]
                  \/ req[g].op # "update"
                  \/ loaded'[g] = tasks'[req[g].task]
    <2>1. CASE g = h
      BY <1>1, <1>4, <1>5, <2>1
    <2>2. CASE g # h
      BY <1>1, <1>2, <1>3, <1>5, <2>2
    <2> QED BY <2>1, <2>2
  <1> QED BY <1>1, <1>5, CopiesKept, Zenon

LEMMA CopiesOther ==
    ASSUME TypeInv, Copies, NEW h \in Handlers,
           Begin(h) \/ Insert(h) \/ Remove(h) \/ RefreshTask(h) \/ Delete(h)
    PROVE  Copies'
  <1>1. \A t \in Tasks : tasks'[t] \in {None, tasks[t]}
    BY TasksKept
  <1>2. pc'[h] \notin {"link", "commit"}
    <2>1. CASE Begin(h)
      <3>1. PICK r \in Sent : pc' = [pc EXCEPT ![h] = First(r.op)]
        BY <2>1 DEF Begin, GoOn, Goto
      <3>2. r.op \in {"add", "remove", "create", "update", "delete"}
        BY SentForms, Zenon
      <3> QED BY <3>1, <3>2 DEF First, TypeInv, TypeOK
    <2>2. CASE Insert(h) \/ Remove(h) \/ Delete(h)
      BY <2>2 DEF Insert, Remove, Delete, Reply, GoOn, Goto, TypeInv, TypeOK
    <2>3. CASE RefreshTask(h)
      BY <2>3, RefreshForm DEF TypeInv, TypeOK
    <2> QED BY <2>1, <2>2, <2>3
  <1>3. \A g \in Handlers : g # h =>
            pc'[g] = pc[g] /\ req'[g] = req[g] /\ loaded'[g] = loaded[g] /\ relinked'[g] = relinked[g]
    <2>1. CASE Begin(h)
      <3>1. PICK r \in Sent : pc' = [pc EXCEPT ![h] = First(r.op)] /\ req' = [req EXCEPT ![h] = r]
        BY <2>1 DEF Begin, GoOn, Goto
      <3> QED BY <2>1, <3>1 DEF Begin, TypeInv, TypeOK
    <2>2. CASE Insert(h) \/ Remove(h) \/ Delete(h)
      BY <2>2 DEF Insert, Remove, Delete, Reply, GoOn, Goto, TypeInv, TypeOK, held, history
    <2>3. CASE RefreshTask(h)
      <3>1. /\ pc' = [pc EXCEPT ![h] = "idle"] \/ pc' = [pc EXCEPT ![h] = "respond"]
            /\ loaded' = [loaded EXCEPT ![h] = tasks[req[h].task]] /\ UNCHANGED <<req, relinked>>
        BY <2>3, RefreshForm
      <3> QED BY <3>1 DEF TypeInv, TypeOK
    <2> QED BY <2>1, <2>2, <2>3
  <1>4. \A g \in Handlers : pc[g] \in {"link", "commit"} => req[g].task \in Tasks
    BY DEF TypeInv, Ready
  <1>5. ASSUME NEW g \in Handlers, pc'[g] \in {"link", "commit"}, relinked'[g] = FALSE
        PROVE  /\ req'[g] = req[g] /\ req[g].task \in Tasks
               /\ pc[g] \in {"link", "commit"} /\ relinked[g] = FALSE /\ loaded'[g] = loaded[g]
    BY <1>2, <1>3, <1>4, <1>5
  <1> QED BY <1>1, <1>5, CopiesKept, Zenon

LEMMA CopiesCommit == ASSUME TypeInv, Copies, NEW h \in Handlers, Commit(h) PROVE Copies'
  <1> DEFINE t == req[h].task  new == NewTask(h)
  <1>1. tasks' = [tasks EXCEPT ![t] = new] /\ pc' = [pc EXCEPT ![h] = "refresh"] /\ UNCHANGED <<req, loaded>>
    BY DEF Commit, GoOn, Goto, held
  <1> SUFFICES ASSUME NEW g \in Handlers, pc'[g] \in {"link", "commit"}, req[g].op = "update",
                      relinked'[g] = FALSE, tasks'[req[g].task] # None
               PROVE  PointerOf(loaded[g]) = PointerOf(tasks'[req[g].task])
    BY <1>1, Zenon DEF Copies, PointerOf
  <1>2. g # h /\ pc[g] \in {"link", "commit"} /\ req[g].task \in Tasks
    BY <1>1 DEF TypeInv, TypeOK, Ready
  <1>3. relinked[g] = FALSE
    BY CommitHistory DEF TypeInv, TypeOK
  <1>4. CASE req[g].task # t
    <2>1. tasks'[req[g].task] = tasks[req[g].task]
      <3> HIDE DEF t, new
      <3> QED BY <1>1, <1>4
    <2> QED BY <1>2, <1>3, <2>1 DEF Copies
  <1>5. CASE req[g].task = t
    <2>1. req[h].op # "create" /\ PointerOf(new) = PointerOf(tasks[t])
      BY <1>2, <1>5, CommitHistory
    <2>2. tasks'[t] = new /\ tasks[t] # None
      <3>1. ~Gone(h) /\ req[h].op = "update"
        BY <2>1 DEF Commit, Is, TypeInv, Ready
      <3>2. tasks[t] # None
        BY <3>1 DEF Gone
      <3> HIDE DEF new, t
      <3> QED BY <1>1, <1>2, <1>5, <3>2 DEF TypeInv, TypeOK
    <2> QED BY <1>2, <1>3, <1>5, <2>1, <2>2 DEF Copies
  <1> QED BY <1>4, <1>5

LEMMA CopiesInit == Init => Copies
  BY DEF Init, Copies

LEMMA CopiesNext == TypeInv /\ Copies /\ [Next]_vars => Copies'
  <1> SUFFICES ASSUME TypeInv, Copies, [Next]_vars PROVE Copies'
    OBVIOUS
  <1>1. CASE Next
    BY <1>1, StepForms, CopiesQuery, CopiesOther, CopiesCommit
  <1>2. CASE UNCHANGED vars
    BY <1>2 DEF vars, tables, held, history, Copies, PointerOf
  <1> QED BY <1>1, <1>2

\* TaskService.update_task writes the table and the id as two columns: they come from different
\* requests only when another has linked the task anew since it was loaded.
THEOREM PointersFromRelinking == Spec => PointersAsked
  <1> DEFINE Whole ==
        \A t \in Tasks :
            tasks[t] # None /\ tasks'[t] # None /\ PointerOf(tasks'[t]) # PointerOf(tasks[t]) =>
                \E h \in Handlers : /\ Is(h, "commit") /\ pc'[h] = "refresh" /\ req[h].task = t
                                    /\ (PointerOf(req[h].body) = PointerOf(tasks'[t]) \/ relinked[h])
  <1>1. TypeInv /\ Copies /\ [Next]_vars => [Whole]_vars
    <2> SUFFICES ASSUME TypeInv, Copies, Next, NEW t \in Tasks, tasks[t] # None, tasks'[t] # None,
                        PointerOf(tasks'[t]) # PointerOf(tasks[t])
                 PROVE  \E h \in Handlers :
                            /\ pc[h] = "commit" /\ pc'[h] = "refresh" /\ req[h].task = t
                            /\ (PointerOf(req[h].body) = PointerOf(tasks'[t]) \/ relinked[h])
      BY Zenon DEF Is
    <2>1. PICK h \in Handlers : Commit(h)
      BY StepForms, TasksKept DEF PointerOf
    <2>2. pc[h] = "commit" /\ pc'[h] = "refresh"
      BY <2>1 DEF Commit, Is, GoOn, Goto, TypeInv, TypeOK
    <2>3. tasks' = [tasks EXCEPT ![req[h].task] = NewTask(h)] /\ relinked[h] \in BOOLEAN
      BY <2>1 DEF Commit, TypeInv, TypeOK
    <2>4. req[h].task = t /\ tasks'[t] = NewTask(h)
      BY <2>3 DEF TypeInv, TypeOK, PointerOf
    <2>5. PointerOf(req[h].body) = PointerOf(NewTask(h)) \/ relinked[h] = TRUE
      BY <2>1, <2>3, <2>4, CommitPointer
    <2> QED BY <2>2, <2>4, <2>5
  <1> QED BY <1>1, TypeInit, TypeNext, CopiesInit, CopiesNext, PTL DEF Spec, PointersAsked

-----------------------------------------------------------------------------
(* What an error leaves behind.                                            *)

Linked(p) == schedules[p] # None

\* A task has its schedule, or is astray.
TasksLinked == \A t \in Tasks : tasks[t] # None => t \in astray \/ Linked(PointerOf(tasks[t]))

\* The schedule that a request goes on with is there, or the request was overtaken.
UsedLinked ==
    \A h \in Handlers : \A p \in Pointer : Uses(h, p) /\ overtaken[h] = FALSE => Linked(p)

\* The task a request has written is there, or was deleted.
Written == \A h \in Handlers : pc[h] = "refresh" => tasks[req[h].task] # None \/ req[h].task \in deleted

LinkInv  == TasksLinked /\ UsedLinked /\ Written
ErrorInv == LinkInv /\ ErrorsChangeNothing

\* A step that does not write a task, nor remove a schedule.
LEMMA LinksKept ==
    ASSUME TypeInv, LinkInv, UNCHANGED <<tasks, astray, deleted>>,
           \A p \in Pointer : Linked(p) => schedules'[p] # None,
           \A h \in Handlers : pc'[h] = "refresh" => pc[h] = "refresh" /\ req'[h] = req[h],
           \A h \in Handlers : \A p \in Pointer : Uses(h, p)' /\ overtaken'[h] = FALSE =>
               \/ Uses(h, p) /\ overtaken[h] = FALSE
               \/ schedules'[p] # None
    PROVE  LinkInv'
  <1>1. TasksLinked'
    <2> SUFFICES ASSUME NEW t \in Tasks, tasks[t] # None, t \notin astray
                 PROVE  schedules'[PointerOf(tasks[t])] # None
      BY Zenon DEF TasksLinked, Linked, PointerOf
    <2>1. Linked(PointerOf(tasks[t]))
      BY Zenon DEF LinkInv, TasksLinked
    <2>2. PointerOf(tasks[t]) \in Pointer
      BY TaskFields DEF TypeInv, TypeOK, Optional
    <2> QED BY <2>1, <2>2
  <1>2. UsedLinked'
    BY Zenon DEF LinkInv, UsedLinked, Linked
  <1>3. Written'
    BY Zenon DEF LinkInv, Written
  <1> QED BY <1>1, <1>2, <1>3 DEF LinkInv

LEMMA AnswerForm ==
    ASSUME NEW a \in Answers, a # None PROVE a.error \in BOOLEAN /\ a.wrote \in BOOLEAN
  BY DEF Answers, Optional

\* The schedule a handler goes on with is its own matter.
LEMMA UsesOwn ==
    ASSUME NEW g, NEW p, pc'[g] = pc[g], req'[g] = req[g], made'[g] = made[g], loaded'[g] = loaded[g]
    PROVE  Uses(g, p)' <=> Uses(g, p)
  BY DEF Uses, Is, PointerOf

LEMMA LinkQuery == ASSUME TypeInv, LinkInv, NEW h \in Handlers, Query(h) PROVE LinkInv'
  <1>1. UNCHANGED <<schedules, tasks, req, made, overtaken, astray, deleted>>
    BY QueryFrame
  <1>2. \A g \in Handlers : g # h => pc'[g] = pc[g] /\ loaded'[g] = loaded[g]
    BY QueryMoves DEF TypeInv, TypeOK
  <1>3. pc'[h] \notin {"refresh", "stored", "respond"}
    BY QueryMoves DEF TypeInv, TypeOK
  <1>4. ASSUME NEW p \in Pointer, Uses(h, p)' PROVE schedules[p] # None
    <2>1. pc'[h] = "commit" /\ PointerOf(req[h].body) = p
      BY <1>1, <1>3, <1>4 DEF Uses, Is, PointerOf
    <2>2. pc[h] \in {"load", "link"}
      BY <2>1, QueryMoves DEF TypeInv, TypeOK
    <2>3. CASE pc[h] = "load"
      <3>1. req[h].body.schedule_id = None
        BY <2>1, <2>3, QueryMoves DEF TypeInv, TypeOK
      <3>2. req[h].body.schedule_id \in Ids
        BY <2>1 DEF PointerOf, Pointer
      <3> QED BY <3>1, <3>2, BeatAssumption
    <2>4. CASE pc[h] = "link"
      BY <2>1, <2>4, QueryMoves DEF TypeInv, TypeOK
    <2> QED BY <2>2, <2>3, <2>4
  <1>5. ASSUME NEW g \in Handlers, NEW p \in Pointer, Uses(g, p)', overtaken'[g] = FALSE
        PROVE  (Uses(g, p) /\ overtaken[g] = FALSE) \/ schedules'[p] # None
    <2>1. CASE g = h
      BY <1>1, <1>4, <1>5, <2>1
    <2>2. CASE g # h
      BY <1>1, <1>2, <1>5, <2>2, UsesOwn
    <2> QED BY <2>1, <2>2
  <1>6. \A p \in Pointer : Linked(p) => schedules'[p] # None
    BY <1>1 DEF Linked
  <1> QED BY <1>1, <1>2, <1>3, <1>5, <1>6, LinksKept, Zenon

\* An error of one that uses its schedule.
LEMMA ErrorUses ==
    ASSUME TypeInv, LinkInv, NEW h \in Handlers, NEW p \in Pointer, Uses(h, p), schedules[p] = None
    PROVE  overtaken[h] = TRUE
  BY DEF LinkInv, UsedLinked, Linked, TypeInv, TypeOK

\* Steps that answer without an error, or without a change, or go on.
LEMMA NoError ==
    ASSUME NEW h \in Handlers, NEW w, NEW place, Reply(h, FALSE, w) \/ Reply(h, TRUE, FALSE) \/ GoOn(h, place)
    PROVE  ErrorsChangeNothing'
  <1>1. CASE GoOn(h, place)
    BY <1>1 DEF GoOn, ErrorsChangeNothing
  <1>2. CASE Reply(h, FALSE, w)
    BY <1>2 DEF Reply, ErrorsChangeNothing
  <1>3. CASE Reply(h, TRUE, FALSE)
    BY <1>3 DEF Reply, ErrorsChangeNothing
  <1> QED BY <1>1, <1>2, <1>3

LEMMA OvertakenError ==
    ASSUME NEW h \in Handlers, NEW e, Reply(h, e, TRUE), overtaken[h] = TRUE
    PROVE  ErrorsChangeNothing'
  BY DEF Reply, ErrorsChangeNothing

LEMMA ErrorQuery == ASSUME TypeInv, ErrorInv, NEW h \in Handlers, Query(h) PROVE ErrorInv'
  <1> SUFFICES ErrorsChangeNothing'
    BY LinkQuery DEF ErrorInv
  <1>2. CASE RefreshSchedule(h)
    <2> DEFINE e == schedules[made[h]] = None
    <2>1. pc[h] = "stored" /\ Reply(h, e, TRUE) /\ made[h] \in Pointer
      BY <1>2 DEF RefreshSchedule, Is, TypeInv, Ready
    <2>2. CASE schedules[made[h]] = None
      <3>1. overtaken[h] = TRUE
        BY <2>1, <2>2, ErrorUses DEF ErrorInv, Uses, Is
      <3> QED BY <2>1, <3>1, OvertakenError
    <2>3. CASE schedules[made[h]] # None
      <3>1. e = FALSE
        BY <2>3
      <3> HIDE DEF e
      <3> QED BY <2>1, <3>1, NoError
    <2> QED BY <2>2, <2>3
  <1>3. CASE Respond(h)
    <2> DEFINE p == PointerOf(loaded[h])  e == schedules[p] = None
    <2>1. pc[h] = "respond" /\ Reply(h, e, TRUE) /\ p \in Pointer
      BY <1>3, TaskFields DEF Respond, Is, TypeInv, Ready
    <2>2. CASE schedules[p] = None
      <3>1. overtaken[h] = TRUE
        BY <2>1, <2>2, ErrorUses DEF ErrorInv, Uses, Is
      <3> QED BY <2>1, <3>1, OvertakenError
    <2>3. CASE schedules[p] # None
      <3>1. e = FALSE
        BY <2>3
      <3> HIDE DEF e
      <3> QED BY <2>1, <3>1, NoError
    <2> QED BY <2>2, <2>3
  <1>4. CASE Find(h) \/ Look(h) \/ CheckName(h) \/ Load(h) \/ Link(h) \/ CommitFails(h) \/ GetTask(h)
    <2>1. \/ Reply(h, FALSE, FALSE) \/ Reply(h, TRUE, FALSE)
          \/ \E place \in Places : GoOn(h, place)
      BY <1>4 DEF Find, Look, CheckName, Load, Link, CommitFails, GetTask, Places
    <2>2. CASE Reply(h, FALSE, FALSE) \/ Reply(h, TRUE, FALSE)
      BY <2>2, NoError, Zenon
    <2>3. CASE \E place \in Places : GoOn(h, place)
      BY <2>3, NoError, Zenon
    <2> QED BY <2>1, <2>2, <2>3
  <1> QED BY <1>2, <1>3, <1>4 DEF Query

LEMMA ErrorBegin == ASSUME TypeInv, ErrorInv, NEW h \in Handlers, Begin(h) PROVE ErrorInv'
  <1>1. PICK r \in Sent : req' = [req EXCEPT ![h] = r] /\ GoOn(h, First(r.op))
    BY DEF Begin
  <1>2. First(r.op) \notin {"refresh", "stored", "respond", "commit"}
    <2>1. r.op \in {"add", "remove", "create", "update", "delete"}
      BY SentForms, Zenon
    <2> QED BY <2>1 DEF First
  <1>3. pc'[h] \notin {"refresh", "stored", "respond", "commit"}
    BY <1>1, <1>2 DEF TypeInv, TypeOK, GoOn, Goto
  <1>4. \A g \in Handlers : g # h => /\ pc'[g] = pc[g] /\ req'[g] = req[g] /\ overtaken'[g] = overtaken[g]
                                     /\ loaded'[g] = loaded[g] /\ made'[g] = made[g]
    BY <1>1 DEF TypeInv, TypeOK, Begin, GoOn, Goto
  <1>5. UNCHANGED <<schedules, tasks, astray, deleted>>
    BY DEF Begin, tables
  <1>6. ASSUME NEW g \in Handlers, NEW p \in Pointer, Uses(g, p)', overtaken'[g] = FALSE
        PROVE  Uses(g, p) /\ overtaken[g] = FALSE
    <2>1. g # h
      BY <1>3, <1>6 DEF Uses, Is
    <2> QED BY <1>4, <1>6, <2>1, UsesOwn
  <1>7. \A p \in Pointer : Linked(p) => schedules'[p] # None
    BY <1>5 DEF Linked
  <1>8. LinkInv'
    BY <1>3, <1>4, <1>5, <1>6, <1>7, LinksKept, Zenon DEF ErrorInv
  <1> QED BY <1>1, <1>8, NoError DEF ErrorInv

LEMMA ErrorInsert == ASSUME TypeInv, ErrorInv, NEW h \in Handlers, Insert(h) PROVE ErrorInv'
  <1> DEFINE s == req[h].spec  i == <<s.kind, used[s.kind] + 1>>
  <1>1. /\ schedules' = [schedules EXCEPT ![i] = Stored(s)] /\ GoOn(h, "stored")
        /\ overtaken' = [g \in Handlers |-> g # h /\ (overtaken[g] \/ Is(g, "insert"))]
        /\ made' = [made EXCEPT ![h] = i]
        /\ UNCHANGED <<tasks, req, loaded, astray, deleted>>
    BY DEF Insert
  <1>2. Stored(s) # None
    <2>1. s \in Wanted
      BY DEF Insert, Is, TypeInv, Ready
    <2>2. Stored(s) \in Schedule
      BY <2>1 DEF Stored, Schedule, Wanted, Optional, Zones
    <2> QED BY <2>2, BeatAssumption
  <1> HIDE DEF i
  <1>3. \A p \in Pointer : Linked(p) \/ p = i => schedules'[p] # None
    BY <1>1, <1>2 DEF Linked, TypeInv, TypeOK
  <1>4. pc'[h] = "stored" /\ made'[h] = i /\ \A g \in Handlers : g # h => pc'[g] = pc[g] /\ made'[g] = made[g]
    BY <1>1 DEF GoOn, Goto, TypeInv, TypeOK
  <1>5. \A g \in Handlers : g # h /\ overtaken'[g] = FALSE => overtaken[g] = FALSE
    BY <1>1 DEF TypeInv, TypeOK
  <1>6. ASSUME NEW g \in Handlers, NEW p \in Pointer, Uses(g, p)', overtaken'[g] = FALSE
        PROVE  (Uses(g, p) /\ overtaken[g] = FALSE) \/ schedules'[p] # None
    <2>1. CASE g = h
      <3>1. p = i
        BY <1>4, <1>6, <2>1 DEF Uses, Is
      <3> QED BY <1>3, <3>1
    <2>2. CASE g # h
      BY <1>1, <1>4, <1>5, <1>6, <2>2, UsesOwn
    <2> QED BY <2>1, <2>2
  <1>7. \A g \in Handlers : pc'[g] = "refresh" => pc[g] = "refresh" /\ req'[g] = req[g]
    BY <1>1, <1>4
  <1>8. LinkInv'
    BY <1>1, <1>3, <1>6, <1>7, LinksKept, Zenon DEF ErrorInv
  <1> QED BY <1>1, <1>8, NoError DEF ErrorInv

LEMMA ErrorRemove == ASSUME TypeInv, ErrorInv, NEW h \in Handlers, Remove(h) PROVE ErrorInv'
  <1> DEFINE p == req[h].at
  <1>1. p \in Pointer /\ pc[h] = "remove" /\ UNCHANGED held
    BY DEF Remove, Is, TypeInv, Ready
  <1>2. ASSUME pc' = [pc EXCEPT ![h] = "idle"]
        PROVE  /\ \A g \in Handlers : pc'[g] = "refresh" => pc[g] = "refresh" /\ req'[g] = req[g]
               /\ \A g \in Handlers : \A q \in Pointer : Uses(g, q)' => Uses(g, q)
    <2>1. UNCHANGED <<req, loaded, made>>
      BY <1>1 DEF held
    <2>2. \A g \in Handlers : pc'[g] # "idle" => pc'[g] = pc[g]
      BY <1>2 DEF TypeInv, TypeOK
    <2>3. ASSUME NEW g \in Handlers, NEW q \in Pointer, Uses(g, q)' PROVE Uses(g, q)
      <3>1. pc'[g] # "idle"
        BY <2>3 DEF Uses, Is
      <3> QED BY <2>1, <2>2, <2>3, <3>1, UsesOwn
    <2> QED BY <2>1, <2>2, <2>3
  <1>3. CASE Reply(h, TRUE, FALSE) /\ UNCHANGED <<tables, history, overtaken>>
    <2>1. UNCHANGED <<schedules, tasks, astray, deleted, overtaken>> /\ pc' = [pc EXCEPT ![h] = "idle"]
      BY <1>3 DEF tables, history, Reply, Goto
    <2>2. \A q \in Pointer : Linked(q) => schedules'[q] # None
      BY <2>1 DEF Linked
    <2>3. LinkInv'
      BY <1>2, <2>1, <2>2, LinksKept, Zenon DEF ErrorInv
    <2> QED BY <1>3, <2>3, NoError DEF ErrorInv
  <1>4. ASSUME Reply(h, FALSE, TRUE), schedules' = [schedules EXCEPT ![p] = None],
               overtaken' = [g \in Handlers |-> overtaken[g] \/ Uses(g, p)],
               astray \subseteq astray', deleted \subseteq deleted',
               \A t \in Tasks : tasks'[t] = tasks[t] \/ (tasks'[t] = None /\ t \in deleted'),
               \A t \in At(p) : t \in astray' \/ tasks'[t] = None
        PROVE  ErrorInv'
    <2>1. \A q \in Pointer : q # p => schedules'[q] = schedules[q]
      BY <1>4 DEF TypeInv, TypeOK
    <2>2. pc' = [pc EXCEPT ![h] = "idle"]
      BY <1>4 DEF Reply, Goto
    <2>3. TasksLinked'
      <3> SUFFICES ASSUME NEW t \in Tasks, tasks'[t] # None, t \notin astray'
                   PROVE  schedules'[PointerOf(tasks'[t])] # None
        BY Zenon DEF TasksLinked, Linked, PointerOf
      <3>1. tasks'[t] = tasks[t] /\ tasks[t] # None /\ t \notin astray /\ t \notin At(p)
        BY <1>4
      <3>2. PointerOf(tasks[t]) # p /\ PointerOf(tasks[t]) \in Pointer
        BY <3>1, TaskFields DEF At, TypeInv, TypeOK, Optional
      <3>3. Linked(PointerOf(tasks[t]))
        BY <3>1, Zenon DEF ErrorInv, LinkInv, TasksLinked
      <3> QED BY <2>1, <3>1, <3>2, <3>3 DEF Linked
    <2>4. UsedLinked'
      <3> SUFFICES ASSUME NEW g \in Handlers, NEW q \in Pointer, Uses(g, q)', overtaken'[g] = FALSE
                   PROVE  schedules'[q] # None
        BY Zenon DEF UsedLinked, Linked
      <3>1. Uses(g, q)
        BY <1>2, <2>2
      <3>2. overtaken[g] = FALSE /\ ~Uses(g, p)
        BY <1>4 DEF TypeInv, TypeOK
      <3>3. q # p
        BY <3>1, <3>2
      <3>4. Linked(q)
        BY <3>1, <3>2, Zenon DEF ErrorInv, LinkInv, UsedLinked
      <3> QED BY <2>1, <3>3, <3>4 DEF Linked
    <2>5. Written'
      <3> SUFFICES ASSUME NEW g \in Handlers, pc'[g] = "refresh", tasks'[req'[g].task] = None
                   PROVE  req'[g].task \in deleted'
        BY Zenon DEF Written
      <3>1. pc[g] = "refresh" /\ req'[g] = req[g] /\ req[g].task \in Tasks
        BY <1>2, <2>2 DEF TypeInv, Ready
      <3>2. tasks[req[g].task] # None \/ req[g].task \in deleted
        BY <3>1, Zenon DEF ErrorInv, LinkInv, Written
      <3> QED BY <1>4, <3>1, <3>2
    <2> QED BY <1>4, <2>3, <2>4, <2>5, NoError DEF ErrorInv, LinkInv
  <1>5. ASSUME NEW how \in Removals, ~(how = "refused" /\ At(p) # {}),
               schedules' = [schedules EXCEPT ![p] = None],
               tasks' = IF how = "cascade" THEN [t \in Tasks |-> IF t \in At(p) THEN None ELSE tasks[t]]
                                           ELSE tasks,
               astray' = IF how = "orphans" THEN astray \cup At(p) ELSE astray,
               deleted' = IF how = "cascade" THEN deleted \cup At(p) ELSE deleted,
               overtaken' = [g \in Handlers |-> overtaken[g] \/ Uses(g, p)],
               Reply(h, FALSE, TRUE)
        PROVE  ErrorInv'
    <2>1. how \in {"orphans", "cascade", "refused"}
      BY BeatAssumption
    <2>2. \A t \in Tasks : tasks'[t] = tasks[t] \/ (tasks'[t] = None /\ t \in deleted')
      BY <1>5
    <2>3. \A t \in At(p) : t \in astray' \/ tasks'[t] = None
      BY <1>5, <2>1 DEF At
    <2>4. astray \subseteq astray' /\ deleted \subseteq deleted'
      BY <1>5
    <2> QED BY <1>4, <1>5, <2>2, <2>3, <2>4
  <1> QED BY <1>3, <1>5 DEF Remove

LEMMA ErrorCommit == ASSUME TypeInv, Copies, ErrorInv, NEW h \in Handlers, Commit(h) PROVE ErrorInv'
  <1> DEFINE t == req[h].task  new == NewTask(h)  b == req[h].body
  <1>1. pc[h] = "commit" /\ t \in Tasks /\ b \in Body /\ Paired(b) /\ new \in Task /\ new # None
    BY NewTaskType, BeatAssumption DEF Commit, Is, TypeInv, Ready
  <1>2. /\ tasks' = [tasks EXCEPT ![t] = new] /\ GoOn(h, "refresh")
        /\ UNCHANGED <<schedules, req, loaded, made, overtaken, deleted>>
    BY DEF Commit, held
  <1>3. \A k \in Tasks : tasks'[k] = IF k = t THEN new ELSE tasks[k]
    <2> HIDE DEF new, t
    <2> QED BY <1>2 DEF TypeInv, TypeOK
  <1>4. pc' = [pc EXCEPT ![h] = "refresh"]
    BY <1>2 DEF GoOn, Goto
  <1>5. ASSUME t \notin astray' PROVE Linked(PointerOf(new))
    <2>1. CASE b.schedule_id = None
      <3>1. PointerOf(new) = PointerOf(tasks[t]) /\ tasks[t] # None /\ t \notin astray
        BY <1>5, <2>1, CommitPointer, CommitHistory
      <3>2. Linked(PointerOf(tasks[t]))
        BY <1>1, <3>1, Zenon DEF ErrorInv, LinkInv, TasksLinked
      <3> QED BY <3>1, <3>2
    <2>2. CASE b.schedule_id # None
      <3>1. overtaken[h] = FALSE /\ relinked[h] = FALSE
        BY <1>5, <2>2, CommitHistory DEF TypeInv, TypeOK
      <3>2. PointerOf(new) = PointerOf(b) /\ PointerOf(b) \in Pointer
        BY <1>1, <2>2, <3>1, CommitPointer, BodyPointer
      <3>3. Uses(h, PointerOf(b))
        BY <1>1 DEF Uses, Is
      <3> QED BY <3>1, <3>2, <3>3 DEF ErrorInv, LinkInv, UsedLinked
    <2> QED BY <2>1, <2>2
  <1>6. TasksLinked'
    <2> SUFFICES ASSUME NEW k \in Tasks, tasks'[k] # None, k \notin astray'
                 PROVE  schedules'[PointerOf(tasks'[k])] # None
      BY Zenon DEF TasksLinked, Linked, PointerOf
    <2>1. CASE k = t
      BY <1>2, <1>3, <1>5, <2>1 DEF Linked
    <2>2. CASE k # t
      <3>1. tasks'[k] = tasks[k]
        BY <1>3, <2>2
      <3>4. k \notin astray
        <4> HIDE DEF t
        <4>1. astray \subseteq astray' \cup {t}
          BY CommitHistory DEF t
        <4> QED BY <2>2, <4>1
      <3>2. Linked(PointerOf(tasks[k]))
        BY <3>1, <3>4, Zenon DEF ErrorInv, LinkInv, TasksLinked
      <3> QED BY <1>2, <3>1, <3>2 DEF Linked
    <2> QED BY <2>1, <2>2
  <1>7. UsedLinked'
    <2> SUFFICES ASSUME NEW g \in Handlers, NEW p \in Pointer, Uses(g, p)', overtaken'[g] = FALSE
                 PROVE  schedules'[p] # None
      BY Zenon DEF UsedLinked, Linked
    <2>1. pc'[h] = "refresh" /\ \A k \in Handlers : k # h => pc'[k] = pc[k]
      BY <1>4 DEF TypeInv, TypeOK
    <2>2. g # h
      BY <2>1 DEF Uses, Is
    <2>3. Uses(g, p) /\ overtaken[g] = FALSE
      BY <1>2, <2>1, <2>2, UsesOwn
    <2> QED BY <1>2, <2>3 DEF ErrorInv, LinkInv, UsedLinked, Linked
  <1>8. Written'
    <2> SUFFICES ASSUME NEW g \in Handlers, pc'[g] = "refresh"
                 PROVE  tasks'[req[g].task] # None \/ req[g].task \in deleted
      BY <1>2 DEF Written
    <2>1. CASE g = h
      BY <1>1, <1>3, <2>1
    <2>2. CASE g # h
      <3>1. pc[g] = "refresh" /\ req[g].task \in Tasks
        BY <1>4, <2>2 DEF TypeInv, TypeOK, Ready
      <3>2. tasks[req[g].task] # None \/ req[g].task \in deleted
        BY <3>1, Zenon DEF ErrorInv, LinkInv, Written
      <3> QED BY <1>1, <1>3, <3>1, <3>2
    <2> QED BY <2>1, <2>2
  <1> QED BY <1>2, <1>6, <1>7, <1>8, NoError DEF ErrorInv, LinkInv

LEMMA ErrorRefresh == ASSUME TypeInv, ErrorInv, NEW h \in Handlers, RefreshTask(h) PROVE ErrorInv'
  <1> DEFINE t == req[h].task
  <1>1. /\ pc[h] = "refresh" /\ t \in Tasks /\ loaded' = [loaded EXCEPT ![h] = tasks[t]]
        /\ pc' = [pc EXCEPT ![h] = "idle"] \/ pc' = [pc EXCEPT ![h] = "respond"]
        /\ UNCHANGED <<schedules, tasks, req, made, astray, deleted>>
    BY RefreshForm
  <1>2. pc'[h] \in {"idle", "respond"} /\ \A g \in Handlers : g # h => pc'[g] = pc[g]
    BY <1>1 DEF TypeInv, TypeOK
  <1>3. loaded'[h] = tasks[t] /\ (overtaken'[h] = FALSE => t \notin astray)
        /\ \A g \in Handlers : g # h => loaded'[g] = loaded[g] /\ overtaken'[g] = overtaken[g]
    BY RefreshForm DEF TypeInv, TypeOK
  <1>4. ASSUME NEW g \in Handlers, NEW p \in Pointer, Uses(g, p)', overtaken'[g] = FALSE
        PROVE  (Uses(g, p) /\ overtaken[g] = FALSE) \/ schedules'[p] # None
    <2>1. CASE g = h
      <3>1. pc'[h] = "respond" /\ p = PointerOf(tasks[t])
        BY <1>2, <1>3, <1>4, <2>1 DEF Uses, Is, PointerOf
      <3>2. tasks[t] # None /\ t \notin astray
        BY <1>3, <1>4, <2>1, <3>1, RefreshForm DEF TypeInv, TypeOK
      <3>3. Linked(PointerOf(tasks[t]))
        BY <1>1, <3>2, Zenon DEF ErrorInv, LinkInv, TasksLinked
      <3> QED BY <1>1, <3>1, <3>3 DEF Linked
    <2>2. CASE g # h
      BY <1>1, <1>2, <1>3, <1>4, <2>2, UsesOwn
    <2> QED BY <2>1, <2>2
  <1>5. \A p \in Pointer : Linked(p) => schedules'[p] # None
    BY <1>1 DEF Linked
  <1>6. \A g \in Handlers : pc'[g] = "refresh" => pc[g] = "refresh" /\ req'[g] = req[g]
    BY <1>1, <1>2
  <1>7. LinkInv'
    BY <1>1, <1>4, <1>5, <1>6, LinksKept, Zenon DEF ErrorInv
  <1>8. ErrorsChangeNothing'
    <2>1. CASE tasks[t] # None
      <3>1. GoOn(h, "respond")
        BY <2>1 DEF RefreshTask
      <3> QED BY <3>1, NoError, Zenon
    <2>2. CASE tasks[t] = None
      <3>1. t \in deleted
        BY <1>1, <2>2, Zenon DEF ErrorInv, LinkInv, Written
      <3>2. answer'.task = t /\ deleted' = deleted
        BY <1>1, <2>2 DEF RefreshTask, Reply
      <3> QED BY <3>1, <3>2 DEF ErrorsChangeNothing
    <2> QED BY <2>1, <2>2
  <1> QED BY <1>7, <1>8 DEF ErrorInv

LEMMA ErrorDelete == ASSUME TypeInv, ErrorInv, NEW h \in Handlers, Delete(h) PROVE ErrorInv'
  <1> DEFINE t == req[h].task
  <1>1. /\ pc[h] = "delete" /\ t \in Tasks /\ Reply(h, FALSE, TRUE)
        /\ tasks' = [tasks EXCEPT ![t] = None] /\ deleted' = deleted \cup {t}
        /\ UNCHANGED <<schedules, req, loaded, made, overtaken, astray>>
    BY DEF Delete, Is, TypeInv, Ready, held
  <1>2. \A k \in Tasks : tasks'[k] = IF k = t THEN None ELSE tasks[k]
    <2> HIDE DEF t
    <2> QED BY <1>1 DEF TypeInv, TypeOK
  <1>3. pc'[h] = "idle" /\ \A g \in Handlers : g # h => pc'[g] = pc[g]
    BY <1>1 DEF Reply, Goto, TypeInv, TypeOK
  <1>4. TasksLinked'
    <2> SUFFICES ASSUME NEW k \in Tasks, tasks'[k] # None, k \notin astray
                 PROVE  schedules[PointerOf(tasks'[k])] # None
      BY <1>1, Zenon DEF TasksLinked, Linked, PointerOf
    <2>1. tasks'[k] = tasks[k]
      BY <1>2
    <2>2. Linked(PointerOf(tasks[k]))
      BY <2>1, Zenon DEF ErrorInv, LinkInv, TasksLinked
    <2> QED BY <2>1, <2>2 DEF Linked
  <1>5. UsedLinked'
    <2> SUFFICES ASSUME NEW g \in Handlers, NEW p \in Pointer, Uses(g, p)', overtaken[g] = FALSE
                 PROVE  schedules[p] # None
      BY <1>1, Zenon DEF UsedLinked, Linked
    <2>1. g # h
      BY <1>3 DEF Uses, Is
    <2>2. Uses(g, p)
      BY <1>1, <1>3, <2>1, UsesOwn
    <2> QED BY <2>2 DEF ErrorInv, LinkInv, UsedLinked, Linked
  <1>6. Written'
    <2> SUFFICES ASSUME NEW g \in Handlers, pc'[g] = "refresh", tasks'[req[g].task] = None
                 PROVE  req[g].task \in deleted'
      BY <1>1, Zenon DEF Written
    <2>1. pc[g] = "refresh" /\ req[g].task \in Tasks
      BY <1>3 DEF TypeInv, Ready
    <2>2. tasks[req[g].task] # None \/ req[g].task \in deleted
      BY <2>1, Zenon DEF ErrorInv, LinkInv, Written
    <2> QED BY <1>1, <1>2, <2>1, <2>2
  <1> QED BY <1>1, <1>4, <1>5, <1>6, NoError DEF ErrorInv, LinkInv

\* crud.create and build_task_schedule_response: an error that leaves a change behind is the
\* doing of another request, which deleted the task, removed the schedule, or linked the task
\* at the same time, whatever the library does with the tasks of a removed schedule.
THEOREM ErrorsExplained == Spec => []ErrorsChangeNothing
  <1>1. Init => ErrorInv
    <2> SUFFICES ASSUME Init PROVE ErrorInv
      OBVIOUS
    <2>1. PICK g \in Given : schedules = g.schedules /\ tasks = g.tasks
      BY DEF Init
    <2>2. TasksLinked
      BY <2>1, GivenAssumption DEF TasksLinked, Linked
    <2>3. UsedLinked /\ Written /\ ErrorsChangeNothing
      BY DEF Init, UsedLinked, Uses, Is, Written, ErrorsChangeNothing
    <2> QED BY <2>2, <2>3 DEF ErrorInv, LinkInv
  <1>2. TypeInv /\ Copies /\ ErrorInv /\ [Next]_vars => ErrorInv'
    <2> SUFFICES ASSUME TypeInv, Copies, ErrorInv, [Next]_vars PROVE ErrorInv'
      OBVIOUS
    <2>1. CASE Next
      BY <2>1, StepForms, ErrorQuery, ErrorBegin, ErrorInsert, ErrorRemove, ErrorCommit, ErrorRefresh,
         ErrorDelete
    <2>2. CASE UNCHANGED vars
      BY <2>2 DEF vars, tables, held, history, ErrorInv, LinkInv, TasksLinked, UsedLinked, Uses, Is, Written,
         ErrorsChangeNothing, Linked, PointerOf
    <2> QED BY <2>1, <2>2
  <1>3. ErrorInv => ErrorsChangeNothing
    BY DEF ErrorInv
  <1> QED BY <1>1, <1>2, <1>3, TypeInit, TypeNext, CopiesInit, CopiesNext, PTL DEF Spec
=============================================================================
