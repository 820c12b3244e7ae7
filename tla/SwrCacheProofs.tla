--------------------------- MODULE SwrCacheProofs ---------------------------
(* Theorems about SwrCache, for any number of requests and tasks, any times *)
(* to live, any number of writes and of failing commands.                   *)
EXTENDS SwrCache, TLAPS

\* A stamp's age and what it has left add up to at most its life and the delay it was
\* set with: what bounds the age although time does not stop.
AgeBound == stamp # None => stamp.age + stamp.left <= Life + Delay

Alone == \A p, q \in Procs : Refreshing(p) /\ Refreshing(q) => p = q

\* As long as no lock went under a refresh, whoever refreshes is alone and the lock is
\* still there.
LockHeld == ~disturbed => Alone /\ ((\E p \in Procs : Refreshing(p)) => lock # None)

IInv == TypeOK /\ AgeBound /\ LockHeld

-----------------------------------------------------------------------------
(* Typing.                                                                 *)

LEMMA ConstFacts ==
    /\ Life \in Nat \ {0} /\ Delay \in Nat /\ Retries \in Nat /\ MaxVersion \in Nat
    /\ MaxFaults \in Nat /\ 0 \in Versions /\ None \notin PlainKey
    /\ Life \in 1..Life /\ [left |-> Life] \in PlainKey
    BY SwrAssumption DEF Life, Versions, PlainKey

LEMMA NoDataType == NoData \in Data
    BY ConstFacts DEF NoData, Data

\* What a failing or succeeding command may do to the count of failures.
LEMMA CommandType ==
    ASSUME TypeOK, NEW ok \in BOOLEAN, Command(ok)
    PROVE  faults' \in 0..MaxFaults
    BY ConstFacts DEF TypeOK, Command

LEMMA ForgetType ==
    ASSUME TypeOK, NEW p \in Procs, Forget(p)
    PROVE  /\ data' \in [Procs -> Data] /\ tries' \in [Readers -> 0..Retries]
           /\ floor' \in [Readers -> Versions]
    BY ConstFacts, NoDataType DEF TypeOK, Forget

LEMMA GotoType ==
    ASSUME TypeOK, NEW p \in Procs, NEW l \in Places, Goto(p, l)
    PROVE  pc' \in [Procs -> Places]
    BY DEF TypeOK, Goto

LEMMA LoosenType ==
    ASSUME NEW v \in Optional(ValueKey), NEW c \in BOOLEAN
    PROVE  Loosen(v, c) \in Optional(ValueKey)
<1>1. CASE v = None
    BY <1>1 DEF Loosen, Optional
<1>2. CASE v \in ValueKey /\ v # None
  <2>1. (v.loose \/ c) \in BOOLEAN
    OBVIOUS
  <2>2. v.ver \in Versions /\ v.left \in 1..Life
    BY <1>2 DEF ValueKey
  <2>3. [v EXCEPT !.loose = @ \/ c] = [ver |-> v.ver, left |-> v.left, loose |-> v.loose \/ c]
    BY <1>2 DEF ValueKey
  <2> QED
    BY <1>2, <2>1, <2>2, <2>3 DEF Loosen, Optional, ValueKey
<1> QED
    BY <1>1, <1>2 DEF Optional

LEMMA TaskType == Idle # {} => Task \in Tasks /\ Task \in Procs /\ pc[Task] = "idle"
    BY DEF Idle, Task, Procs

LEMMA AnswerType ==
    ASSUME TypeOK, NEW r \in Readers, NEW d, d.ver \in Versions, d.loose \in BOOLEAN,
           Answer(r, d)
    PROVE  answer' \in Optional([ver : Versions, loose : BOOLEAN, floor : Versions])
    BY DEF TypeOK, Answer, Optional

\* The steps of a reader that neither fill nor invalidate anything.
LEMMA ReadType ==
    ASSUME TypeOK, AgeBound, NEW r \in Readers,
           Start(r) \/ Get(r) \/ GetAge(r) \/ Call(r) \/ Poll(r) \/ Reget(r)
    PROVE  TypeOK' /\ AgeBound'
<1> USE ConstFacts
<1>0. r \in Procs /\ data[r] \in Data /\ floor[r] \in Versions
    BY DEF Procs, TypeOK
<1>1. CASE Start(r)
  <2>1. Settled \in Versions
    BY DEF TypeOK, Settled
  <2> QED
    BY <1>0, <1>1, <2>1, GotoType DEF Start, TypeOK, AgeBound, Silent, Optional, redis, Places
<1>2. CASE Get(r)
  <2>1. faults' \in 0..MaxFaults
    BY <1>2, CommandType DEF Get
  <2>2. pc' \in [Procs -> Places]
    BY <1>0, <1>2, GotoType DEF Get, Places
  <2>3. data' \in [Procs -> Data]
    <3>1. CASE data' = [data EXCEPT ![r] = [ver |-> value.ver, loose |-> value.loose]] /\ value # None
      <4>1. value.ver \in Versions /\ value.loose \in BOOLEAN
        BY <3>1 DEF TypeOK, Optional, ValueKey
      <4>2. [ver |-> value.ver, loose |-> value.loose] \in Data
        BY <4>1 DEF Data
      <4> QED
        BY <3>1, <4>2 DEF TypeOK
    <3> QED
      BY <1>2, <3>1 DEF Get, TypeOK
  <2> QED
    BY <1>2, <2>1, <2>2, <2>3 DEF Get, TypeOK, AgeBound, Silent, Optional, redis
<1>3. CASE GetAge(r)
  <2>1. faults' \in 0..MaxFaults
    BY <1>3, CommandType DEF GetAge
  <2>2. pc' \in [Procs -> Places]
    BY <1>0, <1>3, GotoType, TaskType DEF GetAge, Places, Stop, TypeOK
  <2>3. /\ data' \in [Procs -> Data] /\ tries' \in [Readers -> 0..Retries]
        /\ floor' \in [Readers -> Versions]
    BY <1>0, <1>3, ForgetType, NoDataType DEF GetAge, Stop, TypeOK
  <2>4. answer' \in Optional([ver : Versions, loose : BOOLEAN, floor : Versions])
    BY <1>0, <1>3, AnswerType DEF GetAge, Silent, Optional, Data
  <2> QED
    BY <1>3, <2>1, <2>2, <2>3, <2>4 DEF GetAge, TypeOK, AgeBound, redis
<1>4. CASE Call(r)
  <2>1. pc' \in [Procs -> Places]
    BY <1>0, <1>4, GotoType DEF Call, Places, Stop
  <2>2. answer' \in Optional([ver : Versions, loose : BOOLEAN, floor : Versions])
    BY <1>0, <1>4, AnswerType DEF Call, TypeOK
  <2> QED
    BY <1>0, <1>4, <2>1, <2>2, ForgetType DEF Call, Stop, TypeOK, AgeBound, redis
<1>5. CASE Poll(r)
  <2>1. faults' \in 0..MaxFaults
    BY <1>5, CommandType DEF Poll, TypeOK
  <2>2. pc' \in [Procs -> Places]
    BY <1>0, <1>5, GotoType DEF Poll, Places
  <2>3. tries' \in [Readers -> 0..Retries]
    BY <1>5 DEF Poll, TypeOK
  <2> QED
    BY <1>5, <2>1, <2>2, <2>3 DEF Poll, TypeOK, AgeBound, redis, Silent, Optional
<1>6. CASE Reget(r)
  <2>1. faults' \in 0..MaxFaults
    BY <1>6, CommandType DEF Reget
  <2>2. pc' \in [Procs -> Places]
    BY <1>0, <1>6, GotoType DEF Reget, Places, Stop
  <2>3. /\ data' \in [Procs -> Data] /\ tries' \in [Readers -> 0..Retries]
        /\ floor' \in [Readers -> Versions]
    BY <1>0, <1>6, ForgetType DEF Reget, Stop, TypeOK
  <2>4. answer' \in Optional([ver : Versions, loose : BOOLEAN, floor : Versions])
    BY <1>0, <1>6, AnswerType DEF Reget, Silent, Optional, ValueKey, TypeOK
  <2> QED
    BY <1>6, <2>1, <2>2, <2>3, <2>4 DEF Reget, TypeOK, AgeBound, redis
<1> QED
    BY <1>1, <1>2, <1>3, <1>4, <1>5, <1>6

\* The steps of a refresh.
LEMMA RefreshType ==
    ASSUME TypeOK, AgeBound, NEW p \in Procs,
           Lock(p) \/ Fetch(p) \/ Store(p) \/ Stamp(p) \/ (p \in Tasks /\ Tag(p)) \/ Release(p)
    PROVE  TypeOK' /\ AgeBound'
<1> USE ConstFacts
<1>0. p \in Readers \/ p \in Tasks
    BY DEF Procs
<1>1. CASE Lock(p)
  <2>1. faults' \in 0..MaxFaults
    BY <1>1, CommandType DEF Lock
  <2>2. pc' \in [Procs -> Places]
    BY <1>1, GotoType DEF Lock, Places, Stop
  <2>3. /\ data' \in [Procs -> Data] /\ tries' \in [Readers -> 0..Retries]
        /\ floor' \in [Readers -> Versions]
    <3>1. CASE tries' = [tries EXCEPT ![p] = Retries] /\ UNCHANGED <<data, floor>>
      <4>1. tries \in [Readers -> 0..Retries] /\ Retries \in 0..Retries
        BY DEF TypeOK
      <4>2. data' \in [Procs -> Data] /\ floor' \in [Readers -> Versions]
        BY <3>1 DEF TypeOK
      <4> QED
        BY <3>1, <4>1, <4>2
    <3>2. CASE Stop(p)
      BY <3>2, ForgetType DEF Stop
    <3>3. CASE UNCHANGED <<data, tries, floor>>
      BY <3>3 DEF TypeOK
    <3> QED
      BY <1>1, <3>1, <3>2, <3>3 DEF Lock
  <2>4. lock' \in Optional(PlainKey) /\ disturbed' \in BOOLEAN
    <3>1. (disturbed /\ \E q \in Procs : Refreshing(q)) \in BOOLEAN
      OBVIOUS
    <3> QED
      BY <1>1, <3>1 DEF Lock, TypeOK, Optional
  <2> QED
    BY <1>1, <2>1, <2>2, <2>3, <2>4 DEF Lock, TypeOK, AgeBound, Silent, Optional
<1>2. CASE Fetch(p)
  <2>1. pc' \in [Procs -> Places]
    BY <1>2, GotoType DEF Fetch, Places
  <2>2. data' \in [Procs -> Data]
    BY <1>2 DEF Fetch, TypeOK, Data
  <2> QED
    BY <1>2, <2>1, <2>2 DEF Fetch, TypeOK, AgeBound, Silent, Optional, redis
<1>3. CASE Store(p)
  <2>1. faults' \in 0..MaxFaults
    BY <1>3, CommandType DEF Store
  <2>2. pc' \in [Procs -> Places]
    BY <1>3, GotoType DEF Store, Places
  <2>3. (data[p].loose \/ Cleaning) \in BOOLEAN
    OBVIOUS
  <2>4. value' \in Optional(ValueKey)
    <3>1. data[p].ver \in Versions
      BY DEF TypeOK, Data
    <3>2. [ver |-> data[p].ver, left |-> Life, loose |-> data[p].loose \/ Cleaning] \in ValueKey
      BY <2>3, <3>1 DEF ValueKey
    <3> QED
      BY <1>3, <3>2 DEF Store, TypeOK, Optional
  <2> QED
    BY <1>3, <2>1, <2>2, <2>4 DEF Store, TypeOK, AgeBound, Silent, Optional
<1>4. CASE Stamp(p)
  <2>1. faults' \in 0..MaxFaults
    BY <1>4, CommandType DEF Stamp
  <2>2. pc' \in [Procs -> Places]
    BY <1>0, <1>4, GotoType, TaskType DEF Stamp, Places, TypeOK
  <2>3. value' \in Optional(ValueKey)
    BY <1>4, LoosenType DEF Stamp, TypeOK
  <2>4. stamp' \in Optional(StampKey) /\ AgeBound'
    <3>1. ASSUME NEW d \in 0..Delay
          PROVE  [age |-> d, left |-> Life] \in StampKey /\ d + Life <= Life + Delay
      BY DEF StampKey
    <3>2. CASE \E d \in 0..Delay : stamp' = [age |-> d, left |-> Life]
      <4>1. PICK d \in 0..Delay : stamp' = [age |-> d, left |-> Life]
        BY <3>2
      <4>2. stamp'.age = d /\ stamp'.left = Life
        BY <4>1
      <4> QED
        BY <3>1, <4>1, <4>2 DEF Optional, AgeBound
    <3>3. CASE UNCHANGED stamp
      BY <3>3 DEF TypeOK, AgeBound
    <3> QED
      BY <1>4, <3>2, <3>3 DEF Stamp
  <2> QED
    BY <1>4, <2>1, <2>2, <2>3, <2>4 DEF Stamp, TypeOK, Silent, Optional
<1>5. CASE p \in Tasks /\ Tag(p)
  <2>1. faults' \in 0..MaxFaults
    BY <1>5, CommandType DEF Tag
  <2>2. pc' \in [Procs -> Places]
    BY <1>5, GotoType DEF Tag, Places
  <2>3. value' \in Optional(ValueKey)
    BY <1>5, LoosenType DEF Tag, TypeOK
  <2>4. tag' \in Optional(PlainKey)
    BY <1>5 DEF Tag, TypeOK, Optional
  <2> QED
    BY <1>5, <2>1, <2>2, <2>3, <2>4 DEF Tag, TypeOK, AgeBound, Silent, Optional
<1>6. CASE Release(p)
  <2>1. faults' \in 0..MaxFaults
    BY <1>6, CommandType DEF Release
  <2>2. pc' \in [Procs -> Places]
    BY <1>6, GotoType DEF Release, Places, Stop
  <2>3. answer' \in Optional([ver : Versions, loose : BOOLEAN, floor : Versions])
    BY <1>6, AnswerType DEF Release, Silent, Optional, Data, TypeOK
  <2>4. lock' \in Optional(PlainKey)
    BY <1>6 DEF Release, TypeOK, Optional
  <2> QED
    BY <1>6, <2>1, <2>2, <2>3, <2>4, ForgetType DEF Release, Stop, TypeOK, AgeBound
<1> QED
    BY <1>1, <1>2, <1>3, <1>4, <1>5, <1>6

\* The steps of a write and of its invalidation.
LEMMA WriteType ==
    ASSUME TypeOK, AgeBound,
           Commit \/ Clean \/ WriterDies \/ (\E k \in Tasks : Members(k) \/ Unlink(k))
    PROVE  TypeOK' /\ AgeBound'
<1> USE ConstFacts
<1>1. CASE Commit
  <2>1. version' \in Versions
    BY <1>1 DEF Commit, TypeOK, Versions
  <2> QED
    BY <1>1, <2>1 DEF Commit, TypeOK, AgeBound, Silent, Optional, redis
<1>2. CASE Clean
  <2>1. pc' \in [Procs -> Places]
    BY <1>2, GotoType, TaskType DEF Clean, Places
  <2>2. (IF CleanFirst THEN version + 1 ELSE version) \in Versions
    BY <1>2 DEF Clean, TypeOK, Versions
  <2>3. data' \in [Procs -> Data]
    BY <1>2, <2>2 DEF Clean, TypeOK, Data
  <2> QED
    BY <1>2, <2>1, <2>3 DEF Clean, TypeOK, AgeBound, Silent, Optional, redis
<1>3. CASE WriterDies
    BY <1>3 DEF WriterDies, TypeOK, AgeBound, Silent, Optional, redis
<1>4. ASSUME NEW done, Race(done)
      PROVE  data' \in [Procs -> Data]
  <2>1. \A q \in Procs : [data[q] EXCEPT !.loose = TRUE] \in Data
    BY DEF TypeOK, Data
  <2> QED
    BY <1>4, <2>1, NoDataType DEF Race, TypeOK
<1>5. ASSUME NEW k \in Tasks, Members(k)
      PROVE  TypeOK' /\ AgeBound'
  <2>0. k \in Procs
    BY DEF Procs
  <2>1. faults' \in 0..MaxFaults
    BY <1>5, CommandType DEF Members
  <2>2. pc' \in [Procs -> Places]
    BY <1>5, <2>0, GotoType DEF Members, Places, Stop
  <2>3. /\ data' \in [Procs -> Data] /\ tries' \in [Readers -> 0..Retries]
        /\ floor' \in [Readers -> Versions]
    BY <1>4, <1>5, <2>0, ForgetType DEF Members, Stop, TypeOK
  <2>4. value' \in Optional(ValueKey)
    BY <1>5, LoosenType DEF Members, TypeOK, Untagged
  <2> QED
    BY <1>5, <2>1, <2>2, <2>3, <2>4 DEF Members, TypeOK, AgeBound, Silent, Optional
<1>6. ASSUME NEW k \in Tasks, Unlink(k)
      PROVE  TypeOK' /\ AgeBound'
  <2>0. k \in Procs
    BY DEF Procs
  <2>1. faults' \in 0..MaxFaults
    BY <1>6, CommandType DEF Unlink
  <2>2. pc' \in [Procs -> Places]
    BY <1>6, <2>0, GotoType DEF Unlink, Places, Stop
  <2>3. /\ data' \in [Procs -> Data] /\ tries' \in [Readers -> 0..Retries]
        /\ floor' \in [Readers -> Versions]
    BY <1>4, <1>6, <2>0, ForgetType DEF Unlink, Stop, TypeOK
  <2>4. value' \in Optional(ValueKey)
    BY <1>6, LoosenType DEF Unlink, TypeOK, Untagged, Optional, redis
  <2>5. cleaned' \in Versions
    BY <1>6, <2>0 DEF Unlink, TypeOK, Data
  <2>6. /\ stamp' \in Optional(StampKey) /\ lock' \in Optional(PlainKey)
        /\ tag' \in Optional(PlainKey) /\ AgeBound'
    BY <1>6 DEF Unlink, TypeOK, Optional, redis, AgeBound
  <2>7. disturbed' \in BOOLEAN
    <3>1. (disturbed \/ (lock # None /\ \E p \in Procs : Refreshing(p))) \in BOOLEAN
      OBVIOUS
    <3> QED
      BY <1>6, <3>1 DEF Unlink, TypeOK
  <2> QED
    BY <1>6, <2>1, <2>2, <2>3, <2>4, <2>5, <2>6, <2>7 DEF Unlink, TypeOK, Silent, Optional
<1> QED
    BY <1>1, <1>2, <1>3, <1>5, <1>6

\* A tick brings every key nearer its end and makes the stamp older.
LEMMA ElapseType ==
    /\ \A v \in Optional(ValueKey) : Elapse(v) \in Optional(ValueKey)
    /\ \A v \in Optional(PlainKey) : Elapse(v) \in Optional(PlainKey)
    /\ \A v \in StampKey : Elapse(v) # None =>
            v.left # 1 /\ Elapse(v) = [v EXCEPT !.left = @ - 1]
<1> USE ConstFacts
<1>1. ASSUME NEW v \in ValueKey, v.left # 1
      PROVE  [v EXCEPT !.left = @ - 1] \in ValueKey
    BY <1>1 DEF ValueKey
<1>2. ASSUME NEW v \in PlainKey, v.left # 1
      PROVE  [v EXCEPT !.left = @ - 1] \in PlainKey
    BY <1>2 DEF PlainKey
<1> QED
    BY <1>1, <1>2 DEF Elapse, Optional

\* What the environment does.
LEMMA EnvType ==
    ASSUME TypeOK, AgeBound, Tick \/ \E p \in Procs : Crash(p)
    PROVE  TypeOK' /\ AgeBound'
<1> USE ConstFacts
<1>1. CASE Tick
  <2>1. /\ value' \in Optional(ValueKey) /\ lock' \in Optional(PlainKey)
        /\ tag' \in Optional(PlainKey)
    BY <1>1, ElapseType DEF Tick, TypeOK
  <2>2. stamp' \in Optional(StampKey) /\ AgeBound'
    <3>1. CASE Elapse(stamp) = None
      BY <1>1, <3>1 DEF Tick, Optional, AgeBound
    <3>2. CASE Elapse(stamp) # None
      <4>1. stamp \in StampKey /\ stamp # None
        BY <3>2 DEF TypeOK, Optional, Elapse
      <4>2. stamp.left # 1 /\ Elapse(stamp) = [stamp EXCEPT !.left = @ - 1]
        BY <3>2, <4>1, ElapseType
      <4>3. stamp' = [age |-> stamp.age + 1, left |-> stamp.left - 1]
        BY <1>1, <3>2, <4>1, <4>2 DEF Tick, StampKey
      <4>4. stamp.age \in Nat /\ stamp.left \in 2..Life /\ stamp.age + stamp.left <= Life + Delay
        BY <4>1, <4>2 DEF AgeBound, StampKey
      <4>5. stamp.age + 1 \in 0..Life + Delay /\ stamp.left - 1 \in 1..Life
        BY <4>4
      <4>6. stamp' \in StampKey
        BY <4>3, <4>5 DEF StampKey
      <4>7. stamp'.age + stamp'.left <= Life + Delay
        BY <4>3, <4>4
      <4> QED
        BY <4>6, <4>7 DEF Optional, AgeBound
    <3> QED
      BY <3>1, <3>2
  <2>3. disturbed' \in BOOLEAN
    <3>1. (disturbed \/ (lock # None /\ Elapse(lock) = None /\ \E p \in Procs : Refreshing(p)))
            \in BOOLEAN
      OBVIOUS
    <3> QED
      BY <1>1, <3>1 DEF Tick
  <2> QED
    BY <1>1, <2>1, <2>2, <2>3 DEF Tick, TypeOK, Silent, Optional
<1>2. ASSUME NEW p \in Procs, Crash(p)
      PROVE  TypeOK' /\ AgeBound'
  <2>1. pc' \in [Procs -> Places]
    BY <1>2, GotoType DEF Crash, Places, Stop
  <2>2. value' \in Optional(ValueKey)
    <3>1. (pc[p] \in {"stamp", "tag", "tagOnly"}) \in BOOLEAN
      OBVIOUS
    <3>2. value' = Loosen(value, pc[p] \in {"stamp", "tag", "tagOnly"})
      BY <1>2 DEF Crash
    <3> QED
      BY <3>1, <3>2, LoosenType DEF TypeOK
  <2>3. /\ data' \in [Procs -> Data] /\ tries' \in [Readers -> 0..Retries]
        /\ floor' \in [Readers -> Versions]
    BY <1>2, ForgetType DEF Crash, Stop
  <2> QED
    BY <1>2, <2>1, <2>2, <2>3 DEF Crash, TypeOK, AgeBound, Silent, Optional
<1> QED
    BY <1>1, <1>2

-----------------------------------------------------------------------------
(* The lock.                                                               *)

\* Steps after which nobody refreshes who did not before leave the lock in order.
LEMMA KeepsLock ==
    ASSUME LockHeld, disturbed => disturbed', lock # None => lock' # None,
           \A q \in Procs : Refreshing(q)' => Refreshing(q)
    PROVE  LockHeld'
    BY DEF LockHeld, Alone

LEMMA LockStep ==
    ASSUME TypeOK, LockHeld, Next
    PROVE  LockHeld'
<1> USE ConstFacts
<1>1. ASSUME NEW r \in Readers, Start(r) \/ Get(r) \/ Call(r) \/ Poll(r) \/ Reget(r)
      PROVE  LockHeld'
  <2>1. \A q \in Procs : Refreshing(q)' => Refreshing(q)
    BY <1>1 DEF Start, Get, Call, Poll, Reget, Stop, Goto, Refreshing, TypeOK, Procs
  <2>2. lock' = lock /\ disturbed' = disturbed
    BY <1>1 DEF Start, Get, Call, Poll, Reget, redis
  <2> QED
    BY <2>1, <2>2, KeepsLock
<1>2. ASSUME NEW r \in Readers, GetAge(r)
      PROVE  LockHeld'
  <2>1. \A q \in Procs : Refreshing(q)' => Refreshing(q)
    BY <1>2, TaskType DEF GetAge, Stop, Goto, Refreshing, TypeOK, Procs
  <2> QED
    BY <1>2, <2>1, KeepsLock DEF GetAge, redis
<1>3. ASSUME NEW p \in Procs, Lock(p)
      PROVE  LockHeld'
  <2>1. CASE lock = None /\ lock' = [left |-> Life]
    <3>1. disturbed' = (disturbed /\ \E q \in Procs : Refreshing(q)) /\ Goto(p, "fetch")
      BY <1>3, <2>1 DEF Lock
    <3>2. ~disturbed' => \A q \in Procs : ~Refreshing(q)
      BY <2>1, <3>1 DEF LockHeld
    <3>3. \A q \in Procs : Refreshing(q)' => q = p \/ Refreshing(q)
      BY <3>1 DEF Goto, Refreshing, TypeOK
    <3>4. lock' # None
      BY <2>1
    <3> QED
      BY <3>2, <3>3, <3>4 DEF LockHeld, Alone
  <2>2. CASE UNCHANGED <<lock, disturbed>> /\ (Stop(p) \/ Goto(p, "wait"))
    <3>1. \A q \in Procs : Refreshing(q)' => Refreshing(q)
      BY <2>2 DEF Stop, Goto, Refreshing, TypeOK
    <3> QED
      BY <2>2, <3>1, KeepsLock
  <2> QED
    BY <1>3, <2>1, <2>2 DEF Lock
<1>4. ASSUME NEW p \in Procs, Fetch(p) \/ Store(p) \/ Stamp(p)
      PROVE  LockHeld'
  <2>1. \A q \in Procs : Refreshing(q)' => Refreshing(q)
    BY <1>4, TaskType DEF Fetch, Store, Stamp, Goto, Refreshing, TypeOK
  <2>2. lock' = lock /\ disturbed' = disturbed
    BY <1>4 DEF Fetch, Store, Stamp, redis
  <2> QED
    BY <2>1, <2>2, KeepsLock
<1>5. ASSUME NEW k \in Tasks, Tag(k) \/ Members(k)
      PROVE  LockHeld'
  <2>1. \A q \in Procs : Refreshing(q)' => Refreshing(q)
    BY <1>5 DEF Tag, Members, Stop, Goto, Refreshing, TypeOK, Procs
  <2>2. lock' = lock /\ disturbed' = disturbed
    BY <1>5 DEF Tag, Members
  <2> QED
    BY <2>1, <2>2, KeepsLock
<1>6. ASSUME NEW p \in Procs, Release(p)
      PROVE  LockHeld'
  <2>1. \A q \in Procs : Refreshing(q)' => Refreshing(q) /\ q # p
    BY <1>6 DEF Release, Stop, Goto, Refreshing, TypeOK
  <2>2. Refreshing(p) /\ disturbed' = disturbed
    BY <1>6 DEF Release, Refreshing
  <2> QED
    BY <2>1, <2>2 DEF LockHeld, Alone
<1>7. ASSUME NEW k \in Tasks, Unlink(k)
      PROVE  LockHeld'
  <2>1. \A q \in Procs : Refreshing(q)' => Refreshing(q)
    BY <1>7 DEF Unlink, Stop, Goto, Refreshing, TypeOK, Procs
  <2>2. CASE disturbed' = (disturbed \/ (lock # None /\ \E p \in Procs : Refreshing(p)))
    BY <2>1, <2>2 DEF LockHeld, Alone
  <2>3. CASE UNCHANGED <<lock, disturbed>>
    BY <2>1, <2>3, KeepsLock
  <2> QED
    BY <1>7, <2>2, <2>3 DEF Unlink, redis
<1>8. CASE Tick
  <2>1. \A q \in Procs : Refreshing(q)' <=> Refreshing(q)
    BY <1>8 DEF Tick, Refreshing
  <2>2. /\ lock' = Elapse(lock)
        /\ disturbed' = (disturbed \/ (lock # None /\ Elapse(lock) = None
                                        /\ \E p \in Procs : Refreshing(p)))
    BY <1>8 DEF Tick
  <2> QED
    BY <2>1, <2>2 DEF LockHeld, Alone
<1>9. CASE Commit \/ WriterDies
  <2>1. \A q \in Procs : Refreshing(q)' => Refreshing(q)
    BY <1>9 DEF Commit, WriterDies, Refreshing
  <2> QED
    BY <1>9, <2>1, KeepsLock DEF Commit, WriterDies, redis
<1>10. CASE Clean
  <2>1. \A q \in Procs : Refreshing(q)' => Refreshing(q)
    BY <1>10, TaskType DEF Clean, Goto, Refreshing, TypeOK
  <2> QED
    BY <1>10, <2>1, KeepsLock DEF Clean, redis
<1>11. ASSUME NEW p \in Procs, Crash(p)
       PROVE  LockHeld'
  <2>1. \A q \in Procs : Refreshing(q)' => Refreshing(q)
    BY <1>11 DEF Crash, Stop, Goto, Refreshing, TypeOK
  <2> QED
    BY <1>11, <2>1, KeepsLock DEF Crash
<1> QED
    BY <1>1, <1>2, <1>3, <1>4, <1>5, <1>6, <1>7, <1>8, <1>9, <1>10, <1>11 DEF Next, Run, Procs

-----------------------------------------------------------------------------
(* The invariant.                                                          *)

LEMMA InitInv == Init => IInv
<1> SUFFICES ASSUME Init PROVE IInv
    OBVIOUS
<1>1. TypeOK
  <2>1. 0 \in 0..Retries /\ 0 \in 0..MaxFaults /\ 0 \in Versions
    BY ConstFacts
  <2> QED
    BY <2>1, NoDataType DEF Init, TypeOK, Places, Optional
<1>2. AgeBound /\ LockHeld
    BY DEF Init, AgeBound, LockHeld, Alone, Refreshing
<1> QED
    BY <1>1, <1>2 DEF IInv

LEMMA StutterInv ==
    ASSUME IInv, UNCHANGED vars
    PROVE  IInv'
<1>1. TypeOK' /\ AgeBound'
    BY DEF IInv, TypeOK, AgeBound, vars, redis
<1>2. LockHeld'
    BY DEF IInv, LockHeld, Alone, Refreshing, vars, redis
<1> QED
    BY <1>1, <1>2 DEF IInv

LEMMA StepInv ==
    ASSUME IInv, Next
    PROVE  IInv'
<1>1. TypeOK' /\ AgeBound'
  <2>1. CASE \E r \in Readers :
                Start(r) \/ Get(r) \/ GetAge(r) \/ Call(r) \/ Poll(r) \/ Reget(r)
    BY <2>1, ReadType DEF IInv
  <2>2. CASE \E p \in Procs : \/ Lock(p) \/ Fetch(p) \/ Store(p) \/ Stamp(p)
                               \/ (p \in Tasks /\ Tag(p)) \/ Release(p)
    BY <2>2, RefreshType DEF IInv
  <2>3. CASE Commit \/ Clean \/ WriterDies \/ (\E k \in Tasks : Members(k) \/ Unlink(k))
    BY <2>3, WriteType DEF IInv
  <2>4. CASE Tick \/ \E p \in Procs : Crash(p)
    BY <2>4, EnvType DEF IInv
  <2> QED
    BY <2>1, <2>2, <2>3, <2>4 DEF Next, Run, Procs
<1>2. LockHeld'
    BY LockStep DEF IInv
<1> QED
    BY <1>1, <1>2 DEF IInv

THEOREM Invariance == Spec => []IInv
<1>1. IInv /\ [Next]_vars => IInv'
    BY StepInv, StutterInv
<1> QED
    BY InitInv, <1>1, PTL DEF Spec

\* The keys in Redis and the processes' variables keep their types, and with them the
\* bounds on ages, polls and failures (get_or_update and what it calls).
THEOREM TypeCorrect == Spec => []TypeOK
<1>1. IInv => TypeOK
    BY DEF IInv
<1> QED
    BY Invariance, <1>1, PTL

\* The lock of _sync_update and _background_update lets one process refresh at a time,
\* unless it expired or was invalidated under a refresh: the unconditional delete at the
\* end of a refresh is no way of its own to lose it.
THEOREM OneRefresher == Spec => []SingleFlight
<1>1. IInv => SingleFlight
    BY DEF IInv, LockHeld, Alone, SingleFlight
<1> QED
    BY Invariance, <1>1, PTL

-----------------------------------------------------------------------------
(* Invalidation, when the service writes first and cleans afterwards.      *)

\* Data that no race excuses.
Tight == value # None /\ ~value.loose

\* An invalidation is of a write that has been committed.
CleansPast ==
    /\ cleaned <= version
    /\ \A k \in Tasks : pc[k] \in {"members", "unlink", "unlinkTag"} => data[k].ver <= version

\* What is about to be stored is as new as the last invalidation, or raced with it.
FilledFresh == \A p \in Procs : pc[p] = "store" /\ ~data[p].loose => data[p].ver >= cleaned

\* A tight value is named by its tag for as long as it lives, or is about to be.
TagCovers == Tight => Untagged \/ (tag # None /\ tag.left >= value.left)

\* An invalidation that read no members leaves no tight value.
NothingMissed == (\E k \in Tasks : pc[k] = "unlinkTag") => ~Tight

StaleInv == CleansPast /\ FilledFresh /\ TagCovers /\ NothingMissed
                /\ (Tight => value.ver >= cleaned)

\* Steps that touch neither the value nor its tag, and bring nobody to a fill or to an
\* invalidation.
LEMMA Harmless ==
    ASSUME StaleInv, UNCHANGED <<cleaned, value, tag>>, version \in Int, version' \in Int,
           version' >= version, cleaned \in Int, \A k \in Tasks : data[k].ver \in Int,
           Untagged => Untagged',
           \A k \in Tasks : pc'[k] \in {"members", "unlink", "unlinkTag"} =>
               pc[k] = pc'[k] /\ data'[k] = data[k],
           \A p \in Procs : pc'[p] = "store" => pc[p] = "store" /\ data'[p] = data[p]
    PROVE  StaleInv'
<1>1. CleansPast'
    BY DEF StaleInv, CleansPast
<1>2. FilledFresh'
    BY DEF StaleInv, FilledFresh
<1>3. TagCovers' /\ NothingMissed' /\ (Tight => value.ver >= cleaned)'
    BY DEF StaleInv, TagCovers, NothingMissed, Tight
<1> QED
    BY <1>1, <1>2, <1>3 DEF StaleInv

LEMMA Numbers ==
    ASSUME TypeOK
    PROVE  /\ version \in Int /\ cleaned \in Int
           /\ \A p \in Procs : data[p].ver \in Int /\ data[p] \in Data
           /\ \A k \in Tasks : data[k].ver \in Int
           /\ \A r \in Readers : floor[r] \in Int
           /\ value # None => value.ver \in Int /\ value.left \in 1..Life /\ value \in ValueKey
           /\ tag # None => tag.left \in 1..Life
    BY ConstFacts DEF TypeOK, Versions, Data, Procs, Optional, ValueKey, PlainKey

LEMMA StaleHarmless ==
    ASSUME TypeOK, StaleInv,
           \/ \E r \in Readers : Start(r) \/ Get(r) \/ GetAge(r) \/ Call(r) \/ Poll(r) \/ Reget(r)
           \/ \E p \in Procs : Lock(p) \/ Release(p)
           \/ WriterDies \/ Commit
    PROVE  StaleInv'
<1> USE Numbers
<1>1. ASSUME NEW r \in Readers, Start(r) \/ Get(r) \/ Poll(r)
      PROVE  StaleInv'
  <2>1. UNCHANGED <<version, cleaned, value, tag>>
    BY <1>1 DEF Start, Get, Poll, redis
  <2>2. \E l \in {"get", "age", "lock", "call", "reget", "wait"} : Goto(r, l)
    BY <1>1 DEF Start, Get, Poll
  <2>3. /\ pc[r] \in {"idle", "get", "wait"}
        /\ \A q \in Procs : q # r => data'[q] = data[q]
    BY <1>1 DEF Start, Get, Poll, TypeOK
  <2> QED
    BY <2>1, <2>2, <2>3, Harmless DEF Goto, TypeOK, Untagged, Procs
<1>2. ASSUME NEW r \in Readers, Call(r) \/ Reget(r)
      PROVE  StaleInv'
  <2>1. UNCHANGED <<version, cleaned, value, tag>>
    BY <1>2 DEF Call, Reget, redis
  <2>2. (Goto(r, "idle") \/ Goto(r, "wait")) /\ pc[r] \in {"call", "reget"}
    BY <1>2 DEF Call, Reget, Stop
  <2>3. \A q \in Procs : q # r => data'[q] = data[q]
    BY <1>2 DEF Call, Reget, Stop, Forget, TypeOK
  <2> QED
    BY <2>1, <2>2, <2>3, Harmless DEF Goto, TypeOK, Untagged, Procs
<1>3. ASSUME NEW r \in Readers, GetAge(r)
      PROVE  StaleInv'
  <2>1. UNCHANGED <<version, cleaned, value, tag>> /\ pc[r] = "age"
    BY <1>3 DEF GetAge, redis
  <2>2. \/ Goto(r, "idle") \/ Goto(r, "lock")
        \/ Idle # {} /\ pc' = [pc EXCEPT ![r] = "idle", ![Task] = "lock"]
    BY <1>3 DEF GetAge, Stop
  <2>3. \A q \in Procs : q # r => data'[q] = data[q]
    BY <1>3 DEF GetAge, Stop, Forget, TypeOK
  <2> QED
    BY <2>1, <2>2, <2>3, Harmless, TaskType DEF Goto, TypeOK, Untagged, Procs
<1>4. ASSUME NEW p \in Procs, Lock(p) \/ Release(p)
      PROVE  StaleInv'
  <2>1. UNCHANGED <<version, cleaned, value, tag>> /\ pc[p] \in {"lock", "release"}
    BY <1>4 DEF Lock, Release
  <2>2. Goto(p, "idle") \/ Goto(p, "fetch") \/ Goto(p, "wait")
    BY <1>4 DEF Lock, Release, Stop
  <2>3. \A q \in Procs : q # p => data'[q] = data[q]
    BY <1>4 DEF Lock, Release, Stop, Forget, TypeOK
  <2> QED
    BY <2>1, <2>2, <2>3, Harmless DEF Goto, TypeOK, Untagged, Procs
<1>5. CASE WriterDies \/ Commit
  <2>1. UNCHANGED <<cleaned, value, tag, pc, data>> /\ version' \in {version, version + 1}
    BY <1>5 DEF WriterDies, Commit, redis
  <2> QED
    BY <2>1, Harmless DEF Untagged
<1> QED
    BY <1>1, <1>2, <1>3, <1>4, <1>5

LEMMA LooseNotTight ==
    /\ \A v : v \in Optional(ValueKey) => (Loosen(v, TRUE) = None \/ Loosen(v, TRUE).loose)
    /\ \A v : v \in Optional(ValueKey) => Loosen(v, FALSE) = v
<1>1. ASSUME NEW v \in ValueKey
      PROVE  [v EXCEPT !.loose = @ \/ TRUE].loose /\ [v EXCEPT !.loose = @ \/ FALSE] = v
  <2>1. v.loose \in BOOLEAN /\ v = [ver |-> v.ver, left |-> v.left, loose |-> v.loose]
    BY DEF ValueKey
  <2>2. (v.loose \/ TRUE) = TRUE /\ (v.loose \/ FALSE) = v.loose
    BY <2>1
  <2>3. [v EXCEPT !.loose = @ \/ TRUE] = [v EXCEPT !.loose = TRUE]
    BY <2>2
  <2>4. [v EXCEPT !.loose = @ \/ FALSE] = [v EXCEPT !.loose = v.loose]
    BY <2>2
  <2>5. [v EXCEPT !.loose = TRUE].loose /\ [v EXCEPT !.loose = v.loose] = v
    BY DEF ValueKey
  <2> QED
    BY <2>3, <2>4, <2>5
<1> QED
    BY <1>1 DEF Loosen, Optional

LEMMA StaleFill ==
    ASSUME TypeOK, StaleInv, ~CleanFirst, NEW p \in Procs,
           Fetch(p) \/ Store(p) \/ Stamp(p) \/ (p \in Tasks /\ Tag(p))
    PROVE  StaleInv'
<1> USE Numbers
<1>1. CASE Fetch(p)
  <2>1. /\ pc[p] = "fetch" /\ (Goto(p, "store") \/ Goto(p, "release"))
        /\ data' = [data EXCEPT ![p] = [ver |-> version, loose |-> FALSE]]
        /\ UNCHANGED <<version, cleaned, value, tag>>
    BY <1>1 DEF Fetch, redis
  <2>2. CleansPast'
    BY <2>1 DEF StaleInv, CleansPast, Goto, TypeOK, Procs
  <2>3. FilledFresh'
    BY <2>1 DEF StaleInv, FilledFresh, CleansPast, Goto, TypeOK
  <2>4. Untagged => Untagged'
    BY <2>1 DEF Untagged, Goto, TypeOK
  <2>5. NothingMissed'
    <3>1. \A q \in Procs : pc'[q] = "unlinkTag" => pc[q] = "unlinkTag"
      BY <2>1 DEF Goto, TypeOK
    <3> QED
      BY <2>1, <3>1 DEF StaleInv, NothingMissed, Tight, Procs
  <2> QED
    BY <2>1, <2>2, <2>3, <2>4, <2>5 DEF StaleInv, TagCovers, Tight
<1>2. CASE Store(p)
  <2>1. /\ pc[p] = "store" /\ UNCHANGED <<version, cleaned, data, tag>>
        /\ \/ /\ value' = [ver |-> data[p].ver, left |-> Life, loose |-> data[p].loose \/ Cleaning]
              /\ Goto(p, "stamp")
           \/ Goto(p, "release") /\ UNCHANGED value
    BY <1>2 DEF Store
  <2>2. CleansPast' /\ FilledFresh'
    <3>1. \A q \in Procs : pc'[q] \in {"store", "members", "unlink", "unlinkTag"} => pc'[q] = pc[q]
      BY <2>1 DEF Goto, TypeOK
    <3>2. CleansPast'
      BY <2>1, <3>1 DEF StaleInv, CleansPast, Procs
    <3>3. FilledFresh'
      BY <2>1, <3>1 DEF StaleInv, FilledFresh
    <3> QED
      BY <3>2, <3>3
  <2>3. CASE Goto(p, "release") /\ UNCHANGED value
    <3>1. Untagged => Untagged'
      BY <2>1, <2>3 DEF Untagged, Goto, TypeOK
    <3> QED
      BY <2>1, <2>2, <2>3, <3>1 DEF StaleInv, TagCovers, NothingMissed, Tight, Goto, TypeOK
  <2>4. CASE /\ value' = [ver |-> data[p].ver, left |-> Life, loose |-> data[p].loose \/ Cleaning]
             /\ Goto(p, "stamp")
    <3>1. Untagged'
      BY <2>4 DEF Untagged, Goto, TypeOK
    <3>2. value'.ver = data[p].ver /\ value'.loose = (data[p].loose \/ Cleaning)
      BY <2>4
    <3>3. Tight' => data[p].ver >= cleaned /\ ~Cleaning
      BY <2>1, <3>2 DEF Tight, StaleInv, FilledFresh
    <3>4. (\E k \in Tasks : pc[k] = "unlinkTag")' => Cleaning
      BY <2>4 DEF Goto, TypeOK, Cleaning
    <3> QED
      BY <2>1, <2>2, <3>1, <3>2, <3>3, <3>4 DEF StaleInv, TagCovers, NothingMissed
  <2> QED
    BY <2>1, <2>3, <2>4
<1>3. CASE Stamp(p)
  <2>1. pc[p] = "stamp" /\ UNCHANGED <<version, cleaned, data, tag>>
    BY <1>3 DEF Stamp
  <2>2. CASE /\ UNCHANGED value
             /\ \/ p \in Tasks /\ Goto(p, "tag")
                \/ Idle # {} /\ pc' = [pc EXCEPT ![p] = "release", ![Task] = "tagOnly"]
    <3>1. Untagged'
      BY <2>1, <2>2, TaskType DEF Untagged, Goto, TypeOK
    <3>2. \A k \in Procs : pc'[k] \in {"store", "members", "unlink", "unlinkTag"} => pc'[k] = pc[k]
      BY <2>1, <2>2, TaskType DEF Goto, TypeOK
    <3> QED
      BY <2>1, <2>2, <3>1, <3>2, Harmless DEF Procs
  <2>3. CASE value' = Loosen(value, TRUE) /\ Goto(p, "release")
    <3>1. ~Tight'
      BY <2>3, LooseNotTight DEF Tight, TypeOK
    <3>2. CleansPast' /\ FilledFresh'
      BY <2>1, <2>3 DEF StaleInv, CleansPast, FilledFresh, Goto, TypeOK
    <3> QED
      BY <3>1, <3>2 DEF StaleInv, TagCovers, NothingMissed
  <2> QED
    BY <1>3, <2>2, <2>3 DEF Stamp
<1>4. CASE p \in Tasks /\ Tag(p)
  <2>1. /\ pc[p] \in {"tag", "tagOnly"} /\ UNCHANGED <<version, cleaned, data>>
        /\ Goto(p, "release") \/ Goto(p, "idle")
        /\ \/ tag' = [left |-> Life] /\ UNCHANGED value
           \/ value' = Loosen(value, TRUE) /\ UNCHANGED tag
    BY <1>4 DEF Tag
  <2>2. CleansPast' /\ FilledFresh'
    <3>1. \A q \in Procs : pc'[q] \in {"store", "members", "unlink", "unlinkTag"} => pc'[q] = pc[q]
      BY <2>1 DEF Goto, TypeOK
    <3>2. CleansPast'
      BY <2>1, <3>1 DEF StaleInv, CleansPast, Procs
    <3>3. FilledFresh'
      BY <2>1, <3>1 DEF StaleInv, FilledFresh
    <3> QED
      BY <3>2, <3>3
  <2>3. CASE tag' = [left |-> Life] /\ UNCHANGED value
    <3>1. tag' # None /\ tag'.left = Life
      BY <2>3, ConstFacts
    <3>2. TagCovers'
      BY <2>3, <3>1, ConstFacts DEF TagCovers, Tight
    <3>3. NothingMissed'
      <4>1. \A q \in Procs : pc'[q] = "unlinkTag" => pc[q] = "unlinkTag"
        BY <2>1 DEF Goto, TypeOK
      <4> QED
        BY <2>3, <4>1 DEF StaleInv, NothingMissed, Tight, Procs
    <3> QED
      BY <2>1, <2>2, <2>3, <3>2, <3>3 DEF StaleInv, Tight
  <2>4. CASE value' = Loosen(value, TRUE)
    <3>1. ~Tight'
      BY <2>4, LooseNotTight DEF Tight, TypeOK
    <3> QED
      BY <2>2, <3>1 DEF StaleInv, TagCovers, NothingMissed
  <2> QED
    BY <2>1, <2>3, <2>4
<1> QED
    BY <1>1, <1>2, <1>3, <1>4

\* Race leaves nothing on its way to a fill that would count as fresh.
LEMMA RaceLoosens ==
    ASSUME TypeOK, NEW done \in SUBSET Tasks, Race(done),
           \A q \in Procs : pc'[q] = "store" => pc[q] = "store" /\ q \notin done
    PROVE  \A q \in Procs : pc'[q] = "store" => data'[q].loose
<1>1. ASSUME NEW q \in Procs, pc'[q] = "store"
      PROVE  data'[q].loose
  <2>1. data'[q] = [data[q] EXCEPT !.loose = TRUE]
    BY <1>1 DEF Race
  <2> QED
    BY <2>1, Numbers DEF Data
<1> QED
    BY <1>1

LEMMA StaleClean ==
    ASSUME TypeOK, StaleInv, ~CleanFirst, Clean \/ \E k \in Tasks : Members(k) \/ Unlink(k)
    PROVE  StaleInv'
<1> USE Numbers
<1>1. CASE Clean
  <2>1. /\ Idle # {} /\ UNCHANGED <<version, cleaned, value, tag>>
        /\ Goto(Task, "members") /\ data' = [data EXCEPT ![Task].ver = version]
    BY <1>1 DEF Clean, redis
  <2>2. CleansPast'
    BY <2>1, TaskType DEF StaleInv, CleansPast, Goto, TypeOK, Data, Procs
  <2>3. FilledFresh'
    BY <2>1, TaskType DEF StaleInv, FilledFresh, Goto, TypeOK
  <2>4. Untagged => Untagged'
    BY <2>1, TaskType DEF Untagged, Goto, TypeOK
  <2>5. NothingMissed'
    BY <2>1, TaskType DEF StaleInv, NothingMissed, Tight, Goto, TypeOK
  <2> QED
    BY <2>1, <2>2, <2>3, <2>4, <2>5 DEF StaleInv, TagCovers, Tight
<1>2. ASSUME NEW k \in Tasks, Members(k)
      PROVE  StaleInv'
  <2>0. k \in Procs
    BY DEF Procs
  <2>1. pc[k] = "members" /\ UNCHANGED <<version, cleaned, tag>>
    BY <1>2 DEF Members
  <2>2. CASE /\ Goto(k, IF tag # None THEN "unlink" ELSE "unlinkTag")
             /\ value' = Loosen(value, Untagged) /\ Race({})
    <3>1. \A q \in Tasks : data'[q].ver = data[q].ver
      BY <2>2, Numbers DEF Race, Data, Procs
    <3>2. CleansPast'
      BY <2>0, <2>1, <2>2, <3>1 DEF StaleInv, CleansPast, Goto, TypeOK, Procs
    <3>3. \A q \in Procs : pc'[q] = "store" => pc[q] = "store"
      BY <2>0, <2>2 DEF Goto, TypeOK
    <3>4. FilledFresh'
      BY <2>2, <3>3, RaceLoosens DEF FilledFresh
    <3>5. CASE Untagged
      <4>1. ~Tight'
        BY <2>2, <3>5, LooseNotTight DEF Tight, TypeOK, Untagged
      <4> QED
        BY <3>2, <3>4, <4>1 DEF StaleInv, TagCovers, NothingMissed
    <3>6. CASE ~Untagged
      <4>1. value' = value
        BY <2>2, <3>6, LooseNotTight DEF TypeOK, Untagged
      <4>2. TagCovers' /\ (Tight => value.ver >= cleaned)'
        BY <2>1, <3>6, <4>1 DEF StaleInv, TagCovers, Tight
      <4>3. NothingMissed'
        BY <2>0, <2>2, <3>6, <4>1 DEF StaleInv, NothingMissed, TagCovers, Tight, Goto, TypeOK
      <4> QED
        BY <3>2, <3>4, <4>2, <4>3 DEF StaleInv
    <3> QED
      BY <3>5, <3>6
  <2>3. CASE Stop(k) /\ UNCHANGED value
    <3>1. \A q \in Procs : q # k => data'[q] = data[q]
      BY <2>3 DEF Stop, Forget, TypeOK
    <3> QED
      BY <2>0, <2>1, <2>3, <3>1, Harmless DEF Stop, Goto, TypeOK, Untagged, Procs
  <2> QED
    BY <1>2, <2>2, <2>3 DEF Members
<1>3. ASSUME NEW k \in Tasks, Unlink(k)
      PROVE  StaleInv'
  <2>0. k \in Procs
    BY DEF Procs
  <2>1. pc[k] \in {"unlink", "unlinkTag"} /\ UNCHANGED version
    BY <1>3 DEF Unlink
  <2>2. CASE /\ tag' = None /\ Goto(k, "idle") /\ Race({k})
             /\ cleaned' = IF data[k].ver > cleaned THEN data[k].ver ELSE cleaned
             /\ \/ value' = None
                \/ pc[k] = "unlinkTag" /\ value' = Loosen(value, Untagged)
    <3>1. \A q \in Tasks : q # k => data'[q].ver = data[q].ver
      BY <2>2, Numbers DEF Race, Data, Procs
    <3>2. CleansPast'
      BY <2>0, <2>1, <2>2, <3>1 DEF StaleInv, CleansPast, Goto, TypeOK, Procs
    <3>3. \A q \in Procs : pc'[q] = "store" => pc[q] = "store" /\ q # k
      BY <2>0, <2>2 DEF Goto, TypeOK
    <3>4. FilledFresh'
      BY <2>2, <3>3, RaceLoosens DEF FilledFresh
    <3>5. ~Tight'
      <4>1. CASE value' = None
        BY <4>1 DEF Tight
      <4>2. CASE pc[k] = "unlinkTag" /\ value' = Loosen(value, Untagged)
        <5>1. ~Tight
          BY <4>2 DEF StaleInv, NothingMissed
        <5>2. value' = Loosen(value, TRUE) \/ value' = value
          BY <4>2, LooseNotTight DEF Untagged, TypeOK
        <5>3. CASE value' = Loosen(value, TRUE)
          BY <5>3, LooseNotTight DEF Tight, TypeOK
        <5>4. CASE value' = value
          BY <5>1, <5>4 DEF Tight
        <5> QED
          BY <5>2, <5>3, <5>4
      <4> QED
        BY <2>2, <4>1, <4>2
    <3> QED
      BY <3>2, <3>4, <3>5 DEF StaleInv, TagCovers, NothingMissed
  <2>3. CASE Stop(k) /\ UNCHANGED <<redis, cleaned>>
    <3>1. \A q \in Procs : q # k => data'[q] = data[q]
      BY <2>3 DEF Stop, Forget, TypeOK
    <3>2. UNCHANGED <<cleaned, value, tag>>
      BY <2>3 DEF redis
    <3> QED
      BY <2>0, <2>1, <2>3, <3>1, <3>2, Harmless DEF Stop, Goto, TypeOK, Untagged, Procs
  <2> QED
    BY <1>3, <2>2, <2>3 DEF Unlink
<1> QED
    BY <1>1, <1>2, <1>3

LEMMA StaleEnv ==
    ASSUME TypeOK, StaleInv, Tick \/ \E p \in Procs : Crash(p)
    PROVE  StaleInv'
<1> USE Numbers
<1>1. CASE Tick
  <2>1. /\ value' = Elapse(value) /\ tag' = Elapse(tag)
        /\ UNCHANGED <<version, cleaned, pc, data>>
    BY <1>1 DEF Tick
  <2>2. Tight' => /\ Tight /\ value'.ver = value.ver /\ value.left # 1
                  /\ value'.left = value.left - 1
    BY <2>1 DEF Tight, Elapse, ValueKey
  <2>3. tag # None /\ tag.left # 1 => tag' # None /\ tag'.left = tag.left - 1
    <3>1. ASSUME tag \in PlainKey, tag.left # 1
          PROVE  [tag EXCEPT !.left = @ - 1] \in PlainKey
      BY <3>1, ConstFacts DEF PlainKey
    <3> QED
      BY <2>1, <3>1, ConstFacts DEF Elapse, TypeOK, Optional, PlainKey
  <2>4. Untagged' <=> Untagged
    BY <2>1 DEF Untagged
  <2>5. TagCovers'
    BY <2>2, <2>3, <2>4, ConstFacts DEF StaleInv, TagCovers, Tight
  <2> QED
    BY <2>1, <2>2, <2>5 DEF StaleInv, CleansPast, FilledFresh, NothingMissed
<1>2. ASSUME NEW p \in Procs, Crash(p)
      PROVE  StaleInv'
  <2>1. UNCHANGED <<version, cleaned, tag>> /\ Goto(p, "idle")
    BY <1>2 DEF Crash, Stop
  <2>2. \A q \in Procs : q # p => data'[q] = data[q]
    BY <1>2 DEF Crash, Stop, Forget, TypeOK
  <2>3. CASE pc[p] \in {"stamp", "tag", "tagOnly"}
    <3>1. value' = Loosen(value, TRUE)
      BY <1>2, <2>3 DEF Crash
    <3>2. ~Tight'
      BY <3>1, LooseNotTight DEF Tight, TypeOK
    <3>3. CleansPast' /\ FilledFresh'
      BY <2>1, <2>2 DEF StaleInv, CleansPast, FilledFresh, Goto, TypeOK, Procs
    <3> QED
      BY <3>2, <3>3 DEF StaleInv, TagCovers, NothingMissed
  <2>4. CASE pc[p] \notin {"stamp", "tag", "tagOnly"}
    <3>1. value' = Loosen(value, FALSE)
      <4>1. (pc[p] \in {"stamp", "tag", "tagOnly"}) = FALSE
        BY <2>4
      <4>2. value' = Loosen(value, pc[p] \in {"stamp", "tag", "tagOnly"})
        BY <1>2 DEF Crash
      <4> QED
        BY <4>1, <4>2
    <3>2. value' = value
      BY <3>1, LooseNotTight DEF TypeOK
    <3> QED
      BY <2>1, <2>2, <2>4, <3>2, Harmless DEF Goto, TypeOK, Untagged, Procs
  <2> QED
    BY <2>3, <2>4
<1> QED
    BY <1>1, <1>2

\* A request that came after an invalidation holds data that are as new, or loose.
HoldsFresh ==
    \A r \in Readers :
        /\ floor[r] <= cleaned
        /\ pc[r] \in {"age", "store", "stamp", "release"} /\ ~data[r].loose => data[r].ver >= floor[r]

\* Steps that leave every request what it has, or take it away.
LEMMA HoldsOn ==
    ASSUME TypeOK, HoldsFresh, cleaned' >= cleaned, cleaned' \in Int,
           \A r \in Readers :
               \/ /\ floor'[r] = floor[r]
                  /\ pc'[r] \in {"age", "store", "stamp", "release"} =>
                         /\ pc[r] \in {"age", "store", "stamp", "release"}
                         /\ data'[r].ver = data[r].ver /\ (data'[r].loose \/ data'[r].loose = data[r].loose)
               \/ floor'[r] = 0 /\ pc'[r] = "idle"
    PROVE  HoldsFresh'
<1>1. 0 <= cleaned' /\ \A r \in Readers : floor[r] \in Int /\ floor[r] <= cleaned
    BY ConstFacts DEF TypeOK, HoldsFresh, Versions
<1>2. ASSUME NEW r \in Readers
      PROVE  floor'[r] <= cleaned'
    BY <1>1, Numbers
<1>3. ASSUME NEW r \in Readers, pc'[r] \in {"age", "store", "stamp", "release"}, ~data'[r].loose
      PROVE  data'[r].ver >= floor'[r]
    BY <1>3, Numbers DEF HoldsFresh
<1> QED
    BY <1>2, <1>3 DEF HoldsFresh

LEMMA ForgetHolds ==
    ASSUME TypeOK, NEW p \in Procs, Stop(p), NEW r \in Readers
    PROVE  \/ r = p /\ floor'[r] = 0 /\ pc'[r] = "idle"
           \/ r # p /\ floor'[r] = floor[r] /\ pc'[r] = pc[r] /\ data'[r] = data[r]
    BY DEF Stop, Forget, Goto, TypeOK, Procs

LEMMA HoldsStep ==
    ASSUME TypeOK, StaleInv, HoldsFresh, ~CleanFirst, Next
    PROVE  HoldsFresh' /\ AnswersOnlyStaleFromRaces'
<1> USE Numbers
<1>0. /\ \A r \in Readers : r \in Procs /\ floor[r] <= version
      /\ Settled = cleaned
    BY DEF Procs, HoldsFresh, StaleInv, CleansPast, Settled
<1>1. ASSUME NEW r \in Readers, Start(r)
      PROVE  HoldsFresh' /\ AnswersOnlyStaleFromRaces'
  <2>1. /\ floor' = [floor EXCEPT ![r] = cleaned] /\ Goto(r, "get")
        /\ answer' = None /\ UNCHANGED <<cleaned, data>>
    BY <1>0, <1>1 DEF Start, Silent
  <2>2. HoldsFresh'
    BY <1>0, <2>1 DEF HoldsFresh, Goto, TypeOK
  <2> QED
    BY <2>1, <2>2 DEF AnswersOnlyStaleFromRaces
<1>2. ASSUME NEW r \in Readers, Get(r)
      PROVE  HoldsFresh' /\ AnswersOnlyStaleFromRaces'
  <2>1. UNCHANGED <<cleaned, floor>> /\ answer' = None
    BY <1>2 DEF Get, Silent
  <2>2. CASE /\ value # None /\ Goto(r, "age")
             /\ data' = [data EXCEPT ![r] = [ver |-> value.ver, loose |-> value.loose]]
    <3>1. ~value.loose => value.ver >= floor[r]
      BY <2>2 DEF StaleInv, Tight, HoldsFresh
    <3>2. data'[r].ver = value.ver /\ data'[r].loose = value.loose
      BY <1>0, <2>2 DEF TypeOK
    <3> QED
      BY <1>0, <2>1, <2>2, <3>1, <3>2 DEF HoldsFresh, AnswersOnlyStaleFromRaces, Goto, TypeOK
  <2>3. CASE (Goto(r, "lock") \/ Goto(r, "call")) /\ UNCHANGED data
    BY <1>0, <2>1, <2>3 DEF HoldsFresh, AnswersOnlyStaleFromRaces, Goto, TypeOK
  <2> QED
    BY <1>2, <2>2, <2>3 DEF Get
<1>3. ASSUME NEW r \in Readers, GetAge(r)
      PROVE  HoldsFresh' /\ AnswersOnlyStaleFromRaces'
  <2>1. /\ pc[r] = "age" /\ UNCHANGED cleaned
        /\ \/ Stop(r) /\ Answer(r, data[r])
           \/ /\ Idle # {} /\ pc' = [pc EXCEPT ![r] = "idle", ![Task] = "lock"]
              /\ Forget(r) /\ Answer(r, data[r])
           \/ /\ Goto(r, "lock") /\ data' = [data EXCEPT ![r] = NoData]
              /\ Silent /\ UNCHANGED <<tries, floor>>
    BY <1>3 DEF GetAge
  <2>2. HoldsFresh'
    BY <1>0, <2>1, HoldsOn, ForgetHolds, TaskType DEF Forget, Goto, TypeOK
  <2>3. Answer(r, data[r]) => AnswersOnlyStaleFromRaces'
    BY <1>0, <2>1 DEF Answer, AnswersOnlyStaleFromRaces, HoldsFresh
  <2>4. Silent => AnswersOnlyStaleFromRaces'
    BY DEF Silent, AnswersOnlyStaleFromRaces
  <2> QED
    BY <2>1, <2>2, <2>3, <2>4
<1>4. ASSUME NEW r \in Readers, Call(r)
      PROVE  HoldsFresh' /\ AnswersOnlyStaleFromRaces'
  <2>1. Stop(r) /\ UNCHANGED cleaned /\ Answer(r, [ver |-> version, loose |-> FALSE])
    BY <1>4 DEF Call
  <2>2. HoldsFresh'
    BY <1>0, <2>1, HoldsOn, ForgetHolds
  <2>3. answer'.ver >= answer'.floor
    BY <1>0, <2>1 DEF Answer
  <2>4. answer'.ver \in Int /\ answer'.floor \in Int
    BY <2>1 DEF Answer
  <2> QED
    BY <2>2, <2>3, <2>4 DEF AnswersOnlyStaleFromRaces
<1>5. ASSUME NEW r \in Readers, Poll(r)
      PROVE  HoldsFresh' /\ AnswersOnlyStaleFromRaces'
  <2>1. /\ UNCHANGED <<cleaned, floor, data>> /\ answer' = None
        /\ \E l \in {"call", "reget", "wait"} : Goto(r, l)
    BY <1>5 DEF Poll, Silent
  <2>2. HoldsFresh'
    BY <1>0, <2>1 DEF HoldsFresh, Goto, TypeOK
  <2> QED
    BY <2>1, <2>2 DEF AnswersOnlyStaleFromRaces
<1>6. ASSUME NEW r \in Readers, Reget(r)
      PROVE  HoldsFresh' /\ AnswersOnlyStaleFromRaces'
  <2>1. /\ UNCHANGED cleaned
        /\ \/ value # None /\ Stop(r) /\ Answer(r, value)
           \/ Goto(r, "wait") /\ Silent /\ UNCHANGED <<data, tries, floor>>
    BY <1>6 DEF Reget
  <2>2. CASE value # None /\ Stop(r) /\ Answer(r, value)
    <3>1. HoldsFresh'
      BY <1>0, <2>1, <2>2, HoldsOn, ForgetHolds
    <3>2. ~value.loose => value.ver >= floor[r]
      BY <2>2 DEF StaleInv, Tight, HoldsFresh
    <3> QED
      BY <2>2, <3>1, <3>2 DEF Answer, AnswersOnlyStaleFromRaces
  <2>3. CASE Goto(r, "wait") /\ Silent /\ UNCHANGED <<data, tries, floor>>
    BY <1>0, <2>1, <2>3 DEF HoldsFresh, AnswersOnlyStaleFromRaces, Silent, Goto, TypeOK
  <2> QED
    BY <2>1, <2>2, <2>3
<1>7. ASSUME NEW p \in Procs, Lock(p)
      PROVE  HoldsFresh' /\ AnswersOnlyStaleFromRaces'
  <2>1. /\ UNCHANGED cleaned /\ answer' = None
        /\ \/ Stop(p)
           \/ (Goto(p, "fetch") \/ Goto(p, "wait")) /\ UNCHANGED <<data, floor>>
    BY <1>7 DEF Lock, Silent
  <2>2. HoldsFresh'
    BY <1>0, <2>1, HoldsOn, ForgetHolds DEF Goto, TypeOK
  <2> QED
    BY <2>1, <2>2 DEF AnswersOnlyStaleFromRaces
<1>8. ASSUME NEW p \in Procs, Fetch(p)
      PROVE  HoldsFresh' /\ AnswersOnlyStaleFromRaces'
  <2>1. /\ UNCHANGED <<cleaned, floor>> /\ answer' = None
        /\ (Goto(p, "store") \/ Goto(p, "release"))
        /\ data' = [data EXCEPT ![p] = [ver |-> version, loose |-> FALSE]]
    BY <1>8 DEF Fetch, Silent
  <2>2. HoldsFresh'
    BY <1>0, <2>1 DEF HoldsFresh, Goto, TypeOK
  <2> QED
    BY <2>1, <2>2 DEF AnswersOnlyStaleFromRaces
<1>9. ASSUME NEW p \in Procs, Store(p) \/ Stamp(p) \/ (p \in Tasks /\ Tag(p))
      PROVE  HoldsFresh' /\ AnswersOnlyStaleFromRaces'
  <2>1. UNCHANGED <<cleaned, floor, data>> /\ answer' = None
    BY <1>9 DEF Store, Stamp, Tag, Silent
  <2>2. \A r \in Readers : pc'[r] \in {"age", "store", "stamp", "release"} =>
                              pc[r] \in {"age", "store", "stamp", "release"}
    <3>1. CASE Store(p)
      BY <1>0, <3>1 DEF Store, Goto, TypeOK
    <3>2. CASE Stamp(p)
      BY <1>0, <3>2, TaskType DEF Stamp, Goto, TypeOK
    <3>3. CASE p \in Tasks /\ Tag(p)
      <4>1. p \notin Readers
        BY <3>3, SwrAssumption
      <4> QED
        BY <1>0, <3>3, <4>1 DEF Tag, Goto, TypeOK
    <3> QED
      BY <1>9, <3>1, <3>2, <3>3
  <2>3. HoldsFresh'
    BY <2>1, <2>2 DEF HoldsFresh
  <2> QED
    BY <2>1, <2>3 DEF AnswersOnlyStaleFromRaces
<1>10. ASSUME NEW p \in Procs, Release(p)
       PROVE  HoldsFresh' /\ AnswersOnlyStaleFromRaces'
  <2>1. /\ pc[p] = "release" /\ Stop(p) /\ UNCHANGED cleaned
        /\ IF p \in Readers THEN Answer(p, data[p]) ELSE Silent
    BY <1>10 DEF Release
  <2>2. HoldsFresh'
    BY <1>0, <2>1, HoldsOn, ForgetHolds
  <2>3. CASE p \in Readers
    BY <1>0, <2>1, <2>2, <2>3 DEF Answer, AnswersOnlyStaleFromRaces, HoldsFresh
  <2>4. CASE p \notin Readers
    BY <2>1, <2>2, <2>4 DEF Silent, AnswersOnlyStaleFromRaces
  <2> QED
    BY <2>3, <2>4
<1>11. ASSUME NEW k \in Tasks, Members(k) \/ Unlink(k)
       PROVE  HoldsFresh' /\ AnswersOnlyStaleFromRaces'
  <2>0. k \in Procs /\ k \notin Readers
    BY SwrAssumption DEF Procs
  <2>1. /\ answer' = None /\ cleaned' >= cleaned /\ cleaned' \in Int
        /\ \/ Stop(k)
           \/ /\ \E l \in {"unlink", "unlinkTag", "idle"} : Goto(k, l)
              /\ Race({}) \/ Race({k})
              /\ UNCHANGED floor
    <3>1. CASE Members(k)
      <4>1. answer' = None /\ cleaned' = cleaned
        BY <3>1 DEF Members, Silent
      <4>2. Stop(k) \/ (/\ (Goto(k, "unlink") \/ Goto(k, "unlinkTag"))
                        /\ Race({}) /\ UNCHANGED floor)
        BY <3>1 DEF Members
      <4> QED
        BY <4>1, <4>2
    <3>2. CASE Unlink(k)
      <4>1. answer' = None /\ cleaned' \in {cleaned, data[k].ver} /\ cleaned' >= cleaned
        <5>1. answer' = None
          BY <3>2 DEF Unlink, Silent
        <5>2. cleaned' = (IF data[k].ver > cleaned THEN data[k].ver ELSE cleaned) \/ cleaned' = cleaned
          BY <3>2 DEF Unlink
        <5>3. data[k].ver \in Int /\ cleaned \in Int
          BY <2>0
        <5> QED
          BY <5>1, <5>2, <5>3
      <4>2. Stop(k) \/ (Goto(k, "idle") /\ Race({k}) /\ UNCHANGED floor)
        BY <3>2 DEF Unlink
      <4> QED
        BY <2>0, <4>1, <4>2
    <3> QED
      BY <1>11, <3>1, <3>2
  <2>2. ASSUME NEW r \in Readers, Race({}) \/ Race({k})
        PROVE  data'[r].ver = data[r].ver /\ (data'[r].loose \/ data'[r].loose = data[r].loose)
    <3>1. data'[r] = [data[r] EXCEPT !.loose = TRUE] \/ data'[r] = data[r]
      BY <1>0, <2>0, <2>2 DEF Race
    <3> QED
      BY <1>0, <3>1 DEF Data
  <2>3. CASE Stop(k)
    BY <2>0, <2>1, <2>3, HoldsOn, ForgetHolds DEF AnswersOnlyStaleFromRaces
  <2>4. CASE /\ \E l \in {"unlink", "unlinkTag", "idle"} : Goto(k, l)
             /\ Race({}) \/ Race({k})
             /\ UNCHANGED floor
    <3>1. \A r \in Readers : pc'[r] = pc[r] /\ floor'[r] = floor[r]
      BY <1>0, <2>0, <2>4 DEF Goto, TypeOK
    <3> QED
      BY <2>1, <2>2, <2>4, <3>1, HoldsOn DEF AnswersOnlyStaleFromRaces
  <2> QED
    BY <2>1, <2>3, <2>4
<1>12. CASE Commit \/ WriterDies \/ Tick
  <2>1. UNCHANGED <<cleaned, floor, data, pc>> /\ answer' = None
    BY <1>12 DEF Commit, WriterDies, Tick, Silent
  <2> QED
    BY <2>1 DEF HoldsFresh, AnswersOnlyStaleFromRaces
<1>13. CASE Clean
  <2>1. /\ UNCHANGED <<cleaned, floor>> /\ answer' = None /\ Idle # {}
        /\ Goto(Task, "members") /\ data' = [data EXCEPT ![Task].ver = version]
    BY <1>13 DEF Clean, Silent
  <2>2. Task \notin Readers
    BY <2>1, TaskType, SwrAssumption
  <2>3. \A r \in Readers : pc'[r] = pc[r] /\ data'[r] = data[r]
    BY <1>0, <2>1, <2>2 DEF Goto, TypeOK
  <2> QED
    BY <2>1, <2>3 DEF HoldsFresh, AnswersOnlyStaleFromRaces
<1>14. ASSUME NEW p \in Procs, Crash(p)
       PROVE  HoldsFresh' /\ AnswersOnlyStaleFromRaces'
  <2>1. Stop(p) /\ UNCHANGED cleaned /\ answer' = None
    BY <1>14 DEF Crash, Silent
  <2> QED
    BY <1>0, <2>1, HoldsOn, ForgetHolds DEF AnswersOnlyStaleFromRaces
<1> QED
    BY <1>1, <1>2, <1>3, <1>4, <1>5, <1>6, <1>7, <1>8, <1>9, <1>10, <1>11, <1>12, <1>13, <1>14
    DEF Next, Run, Procs

\* Everything about stale data that a service relies on which cleans after its write.
CleanInv == IInv /\ StaleInv /\ HoldsFresh /\ AnswersOnlyStaleFromRaces

LEMMA CleanInit == Init => CleanInv
<1> SUFFICES ASSUME Init PROVE CleanInv
    OBVIOUS
<1>1. ~Tight /\ answer = None /\ \A p \in Procs : pc[p] = "idle"
    BY DEF Init, Tight
<1>2. StaleInv
  <2>1. cleaned <= version
    BY DEF Init
  <2>2. CleansPast /\ FilledFresh
    BY <1>1, <2>1 DEF CleansPast, FilledFresh, Procs
  <2> QED
    BY <1>1, <2>2 DEF StaleInv, TagCovers, NothingMissed
<1>3. HoldsFresh /\ AnswersOnlyStaleFromRaces
    BY <1>1 DEF Init, HoldsFresh, AnswersOnlyStaleFromRaces, Procs
<1> QED
    BY <1>2, <1>3, InitInv DEF CleanInv

LEMMA CleanStep ==
    ASSUME ~CleanFirst, CleanInv, [Next]_vars
    PROVE  CleanInv'
<1>1. CASE Next
  <2>1. StaleInv'
    <3>1. CASE \/ \E r \in Readers :
                     Start(r) \/ Get(r) \/ GetAge(r) \/ Call(r) \/ Poll(r) \/ Reget(r)
               \/ \E p \in Procs : Lock(p) \/ Release(p)
               \/ WriterDies \/ Commit
      BY <3>1, StaleHarmless DEF CleanInv, IInv
    <3>2. CASE \E p \in Procs : Fetch(p) \/ Store(p) \/ Stamp(p) \/ (p \in Tasks /\ Tag(p))
      BY <3>2, StaleFill DEF CleanInv, IInv
    <3>3. CASE Clean \/ \E k \in Tasks : Members(k) \/ Unlink(k)
      BY <3>3, StaleClean DEF CleanInv, IInv
    <3>4. CASE Tick \/ \E p \in Procs : Crash(p)
      BY <3>4, StaleEnv DEF CleanInv, IInv
    <3> QED
      BY <1>1, <3>1, <3>2, <3>3, <3>4 DEF Next, Run, Procs
  <2> QED
    BY <1>1, <2>1, StepInv, HoldsStep DEF CleanInv, IInv
<1>2. CASE UNCHANGED vars
  <2>1. StaleInv' /\ HoldsFresh' /\ AnswersOnlyStaleFromRaces'
    BY <1>2 DEF CleanInv, StaleInv, CleansPast, FilledFresh, TagCovers, NothingMissed, Tight,
                Untagged, HoldsFresh, AnswersOnlyStaleFromRaces, vars, redis
  <2> QED
    BY <1>2, <2>1, StutterInv DEF CleanInv
<1> QED
    BY <1>1, <1>2

THEOREM CleanInvariance == ASSUME ~CleanFirst PROVE Spec => []CleanInv
<1>1. CleanInv /\ [Next]_vars => CleanInv'
    BY CleanStep
<1> QED
    BY CleanInit, <1>1, PTL DEF Spec

\* Where the service writes and then cleans (booking.py), delete_keys_by_tag misses an
\* old value only if that value was being filled, or its tagging failed: the tag always
\* names a value for as long as the value lives.
THEOREM InvalidationWorks == ASSUME ~CleanFirst PROVE Spec => []StaleOnlyFromRaces
<1>1. CleanInv => StaleOnlyFromRaces
  <2> SUFFICES ASSUME CleanInv PROVE StaleOnlyFromRaces
    OBVIOUS
  <2>1. TypeOK /\ StaleInv
    BY DEF CleanInv, IInv
  <2>2. Settled = cleaned
    BY <2>1, Numbers DEF StaleInv, CleansPast, Settled
  <2> QED
    BY <2>1, <2>2, Numbers DEF StaleInv, Tight, StaleOnlyFromRaces
<1> QED
    BY CleanInvariance, <1>1, PTL

\* And no request is answered with less than had been written and invalidated when it
\* came, but for the same races.
THEOREM AnswersCurrent == ASSUME ~CleanFirst PROVE Spec => []AnswersOnlyStaleFromRaces
<1>1. CleanInv => AnswersOnlyStaleFromRaces
    BY DEF CleanInv
<1> QED
    BY CleanInvariance, <1>1, PTL
=============================================================================
