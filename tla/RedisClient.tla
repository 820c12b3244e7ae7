---------------------------- MODULE RedisClient ----------------------------
(***************************************************************************)
(* The client every cache operation goes through (cache/redis_client.py):  *)
(* its pool, its health flag, the check before each command, and the loop  *)
(* that reconnects in the background after an outage.                      *)
(*                                                                         *)
(* A command checks is_available, takes a connection out of the pool and   *)
(* waits for Redis; others run at each of these points.  What the commands *)
(* ask of Redis is SwrCache's subject.  The pool is redis-py's: closing it *)
(* breaks the connections in use, and taking more than there are raises.   *)
(***************************************************************************)
EXTENDS Integers, FiniteSets

CONSTANTS
    Commands,        \* coroutines that use the client
    Loops,           \* bound: identities for reconnect loops
    max_connections,
    MaxFaults        \* bound: outages, errors of commands, surprises in connect

ASSUME ClientAssumption ==
    /\ IsFiniteSet(Commands)
    /\ max_connections \in Nat \ {0}
    /\ MaxFaults \in Nat

VARIABLES
    up,            \* Redis answers
    pool,          \* self.pool: None, not pinged yet, usable, being closed
    is_healthy,
    is_reconnect,
    loop,          \* where each reconnect loop is
    command,       \* the commands under way
    faults,
    trouble        \* history: there was a fault since Redis last answered a connect

vars == <<up, pool, is_healthy, is_reconnect, loop, command, faults, trouble>>

\* `mine`: the pool the command got is still self.pool.  `broken`: the connection
\* has been closed under it, or was there when Redis went away.
Command == [pc : {"idle", "granted", "running"}, mine : BOOLEAN, broken : BOOLEAN]
Idle == [pc |-> "idle", mine |-> FALSE, broken |-> FALSE]

\* The lifespan of the application starts with connect.
Init ==
    /\ up \in BOOLEAN
    /\ pool = IF up THEN "open" ELSE "none"
    /\ is_healthy = up
    /\ is_reconnect = FALSE
    /\ loop = [l \in Loops |-> "none"]
    /\ command = [c \in Commands |-> Idle]
    /\ faults = 0
    /\ trouble = ~up

Client == <<pool, is_healthy, is_reconnect, loop>>
InUse == {c \in Commands : command[c].pc = "running" /\ command[c].mine}

\* Connections that are closed, or whose pool is replaced, under the commands.
Broken(cs) == [c \in Commands |->
    IF command[c].pc = "running" /\ c \in cs THEN [command[c] EXCEPT !.broken = TRUE] ELSE command[c]]
\* Defect: connect goes on with the pool there was.
OrphanedNone == command
Orphaned == [c \in Commands |-> [command[c] EXCEPT !.mine = FALSE]]

-----------------------------------------------------------------------------
(* is_available and the commands                                           *)

Disconnected == ~is_healthy \/ pool = "none"

\* Defect: the loop's own flag is not looked at.
ToReconnectBlindly == Disconnected
ToReconnect == ~is_reconnect /\ Disconnected

\* A call of is_available, by whomever, that finds the client disconnected.
Notice(l) ==
    /\ ToReconnect
    /\ loop[l] = "none"
    /\ is_reconnect' = TRUE
    /\ loop' = [loop EXCEPT ![l] = "check"]
    /\ UNCHANGED <<up, pool, is_healthy, command, faults, trouble>>

\* get_client: is_available is true, and the client holds self.pool.
Grant(c) ==
    /\ command[c].pc = "idle"
    /\ ~is_reconnect /\ ~Disconnected
    /\ Cardinality(InUse) < max_connections     \* can_get_connection
    /\ command' = [command EXCEPT ![c] = [pc |-> "granted", mine |-> TRUE, broken |-> FALSE]]
    /\ UNCHANGED <<up, Client, faults, trouble>>

\* Defect: the pool is created without its limit.
TakeUnlimited(c) ==
    /\ command[c].pc = "granted"
    /\ command' = [command EXCEPT ![c].pc = "running"]
    /\ UNCHANGED <<up, Client, faults, trouble>>

\* The command takes a connection when it gets to it: others may have taken the
\* last one since the check.  An old pool has room.
Take(c) ==
    /\ command[c].pc = "granted"
    /\ command[c].mine => Cardinality(InUse) < max_connections
    /\ command' = [command EXCEPT ![c].pc = "running"]
    /\ UNCHANGED <<up, Client, faults, trouble>>

Exhausted(c) ==
    /\ command[c].pc = "granted"
    /\ command[c].mine /\ Cardinality(InUse) >= max_connections
    /\ command' = [command EXCEPT ![c] = Idle]
    /\ is_healthy' = FALSE
    /\ trouble' = TRUE
    /\ UNCHANGED <<up, pool, is_reconnect, loop, faults>>

\* An answer, after a new attempt if the connection was broken; or a cancellation.
Answer(c) ==
    /\ command[c].pc = "running"
    /\ up
    /\ command' = [command EXCEPT ![c] = Idle]
    /\ UNCHANGED <<up, Client, faults, trouble>>

\* Whatever a command raises makes the client unhealthy ...
Fail(c) ==
    /\ command[c].pc = "running"
    /\ ~up \/ command[c].broken
    /\ command' = [command EXCEPT ![c] = Idle]
    /\ is_healthy' = FALSE
    /\ UNCHANGED <<up, pool, is_reconnect, loop, faults, trouble>>

\* ... errors that Redis answers with, or of the command's own, as well.
OwnError(c) ==
    /\ command[c].pc = "running"
    /\ faults < MaxFaults
    /\ faults' = faults + 1
    /\ command' = [command EXCEPT ![c] = Idle]
    /\ is_healthy' = FALSE
    /\ trouble' = TRUE
    /\ UNCHANGED <<up, pool, is_reconnect, loop>>

-----------------------------------------------------------------------------
(* _reconnect_loop                                                         *)

\* The test of each round, and disconnect up to its await: the connections break.
Round(l) ==
    /\ loop[l] = "check"
    /\ loop' = [loop EXCEPT ![l] =
          IF ~Disconnected THEN "none" ELSE IF pool = "none" THEN "sleep" ELSE "close"]
    /\ is_reconnect' = (is_reconnect /\ Disconnected)
    /\ IF Disconnected /\ pool # "none"
       THEN pool' = "closing" /\ command' = Broken(InUse)
       ELSE UNCHANGED <<pool, command>>
    /\ UNCHANGED <<up, is_healthy, faults, trouble>>

Closed(l) ==
    /\ loop[l] = "close"
    /\ loop' = [loop EXCEPT ![l] = "sleep"]
    /\ pool' = "none"
    /\ UNCHANGED <<up, is_healthy, is_reconnect, command, faults, trouble>>

\* Defect: the client counts as healthy before the ping is answered.
ConnectingHealthy(l) ==
    /\ loop[l] = "sleep"
    /\ loop' = [loop EXCEPT ![l] = "ping"]
    /\ pool' = "fresh"
    /\ command' = Orphaned
    /\ is_healthy' = TRUE
    /\ UNCHANGED <<up, is_reconnect, faults, trouble>>

\* After the pause, connect: a new pool is assigned before its ping.
Connecting(l) ==
    /\ loop[l] = "sleep"
    /\ loop' = [loop EXCEPT ![l] = "ping"]
    /\ pool' = "fresh"
    /\ command' = Orphaned
    /\ UNCHANGED <<up, is_healthy, is_reconnect, faults, trouble>>

\* The answer to the ping; connect forgets the pool of a ping that failed.
Connected(l) ==
    /\ loop[l] = "ping"
    /\ loop' = [loop EXCEPT ![l] = IF up THEN "none" ELSE "check"]
    /\ is_healthy' = up
    /\ is_reconnect' = (is_reconnect /\ ~up)
    /\ pool' = IF up THEN "open" ELSE "none"
    /\ trouble' = (trouble /\ ~up)
    /\ UNCHANGED <<up, command, faults>>

\* Defect: the flag is reset only after a connection.
SurpriseKeepsFlag(l) ==
    /\ loop[l] = "ping"
    /\ faults < MaxFaults
    /\ faults' = faults + 1
    /\ loop' = [loop EXCEPT ![l] = "none"]
    /\ UNCHANGED <<up, pool, is_healthy, is_reconnect, command, trouble>>

\* An exception that connect does not expect ends the loop; its pool stays.
Surprise(l) ==
    /\ loop[l] = "ping"
    /\ faults < MaxFaults
    /\ faults' = faults + 1
    /\ loop' = [loop EXCEPT ![l] = "none"]
    /\ is_reconnect' = FALSE
    /\ UNCHANGED <<up, pool, is_healthy, command, trouble>>

-----------------------------------------------------------------------------
(* Redis                                                                   *)

Outage ==
    /\ up
    /\ faults < MaxFaults
    /\ faults' = faults + 1
    /\ up' = FALSE
    /\ command' = Broken(Commands)
    /\ trouble' = TRUE
    /\ UNCHANGED Client

Return ==
    /\ ~up
    /\ up' = TRUE
    /\ UNCHANGED <<Client, command, faults, trouble>>

Next ==
    \/ \E c \in Commands :
        Grant(c) \/ Take(c) \/ Exhausted(c) \/ Answer(c) \/ Fail(c) \/ OwnError(c)
    \/ \E l \in Loops :
        Notice(l) \/ Round(l) \/ Closed(l) \/ Connecting(l) \/ Connected(l) \/ Surprise(l)
    \/ Outage \/ Return

Spec == Init /\ [][Next]_vars

\* The event loop runs what is ready, Redis comes back, and requests or health
\* checks go on calling is_available.
FairSpec ==
    /\ Spec
    /\ \A c \in Commands : WF_vars(Take(c) \/ Exhausted(c) \/ Answer(c) \/ Fail(c))
    /\ \A l \in Loops : WF_vars(Round(l) \/ Closed(l) \/ Connecting(l) \/ Connected(l))
    /\ WF_vars(\E l \in Loops : Notice(l))
    /\ WF_vars(Return)

-----------------------------------------------------------------------------
(* Properties                                                              *)

\* Everything keeps its type, and no pool gives out more connections than it has.
TypeOK ==
    /\ up \in BOOLEAN /\ is_healthy \in BOOLEAN /\ is_reconnect \in BOOLEAN /\ trouble \in BOOLEAN
    /\ pool \in {"none", "fresh", "open", "closing"}
    /\ loop \in [Loops -> {"none", "check", "close", "sleep", "ping"}]
    /\ command \in [Commands -> Command]
    /\ faults \in 0..MaxFaults
    /\ Cardinality(InUse) <= max_connections

Running == {l \in Loops : loop[l] # "none"}

\* At most one loop reconnects, and the flag tells when: is_available starts no
\* second one, and no way out of the loop leaves the flag behind.
OneLoop ==
    /\ \A k, l \in Running : k = l
    /\ is_reconnect <=> Running # {}

\* A healthy client has a pool whose ping was answered and which nobody closes:
\* the loop never works on a pool that commands are let to, and the failure of a
\* command never comes between to make it do so.
HealthyIsUsable == is_healthy => pool = "open" /\ ~is_reconnect

\* Health is lost only to a fault since the last connect (an outage, an error, a
\* pool with too little room), or to a command that was already under way when
\* the present pool was connected.
Lost == is_healthy /\ ~is_healthy' =>
    \/ trouble'
    \/ \E c \in Commands : command[c].pc = "running" /\ ~command[c].mine /\ command'[c] = Idle
LostToFaults == [][Lost]_vars

\* After every outage the cache comes back, as long as there are requests: the
\* loop is always started again, however the last one ended.
ComesBack == []<>(is_healthy /\ pool = "open")
=============================================================================
