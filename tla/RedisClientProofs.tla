------------------------- MODULE RedisClientProofs -------------------------
(* Theorems about RedisClient, for any number of commands, connections,    *)
(* faults and identities of loops.                                         *)
EXTENDS RedisClient, FiniteSetTheorems, TLAPS

Types ==
    /\ up \in BOOLEAN /\ is_healthy \in BOOLEAN /\ is_reconnect \in BOOLEAN /\ trouble \in BOOLEAN
    /\ pool \in {"none", "fresh", "open", "closing"}
    /\ loop \in [Loops -> {"none", "check", "close", "sleep", "ping"}]
    /\ command \in [Commands -> Command]
    /\ faults \in 0..MaxFaults

\* Whatever can make a command of a healthy client fail has a cause: Redis is
\* away, or was; the pool being pinged has not been given to anyone.
Causes ==
    /\ ~up => trouble
    /\ \A l \in Loops, c \in Commands : loop[l] = "ping" => ~command[c].mine
    /\ \A c \in Commands : command[c].broken /\ command[c].mine /\ is_healthy => trouble

IInv == TypeOK /\ OneLoop /\ HealthyIsUsable /\ Causes

-----------------------------------------------------------------------------
(* Typing and the limit of the pool.                                       *)

Flags == up \in BOOLEAN /\ is_healthy \in BOOLEAN /\ is_reconnect \in BOOLEAN /\ trouble \in BOOLEAN
Stages ==
    /\ pool \in {"none", "fresh", "open", "closing"}
    /\ loop \in [Loops -> {"none", "check", "close", "sleep", "ping"}]
    /\ faults \in 0..MaxFaults

LEMMA TypesParts == Types <=> Flags /\ Stages /\ command \in [Commands -> Command]
    BY DEF Types, Flags, Stages

LEMMA TypesInit == Init => Types
<1> SUFFICES ASSUME Init PROVE Types
    OBVIOUS
<1>1. Flags
    BY Zenon DEF Init, Flags
<1>2. Stages
    BY ClientAssumption DEF Init, Stages
<1>3. command \in [Commands -> Command]
    BY DEF Init, Command, Idle
<1> QED
    BY <1>1, <1>2, <1>3, TypesParts

LEMMA CommandsType ==
    ASSUME command \in [Commands -> Command], [Next]_vars
    PROVE  command' \in [Commands -> Command]
<1>1. \A cs : Broken(cs) \in [Commands -> Command]
    BY DEF Broken, Command
<1>2. Orphaned \in [Commands -> Command]
    BY DEF Orphaned, Command
<1>3. ASSUME NEW c \in Commands, Take(c) PROVE command' \in [Commands -> Command]
  <2>1. [command[c] EXCEPT !.pc = "running"] \in Command
    BY DEF Command
  <2> QED
    BY <1>3, <2>1 DEF Take
<1>4. ASSUME NEW c \in Commands, Grant(c) \/ Exhausted(c) \/ Answer(c) \/ Fail(c) \/ OwnError(c)
      PROVE  command' \in [Commands -> Command]
  <2>1. Idle \in Command /\ [pc |-> "granted", mine |-> TRUE, broken |-> FALSE] \in Command
    BY DEF Command, Idle
  <2> QED
    BY <1>4, <2>1 DEF Grant, Exhausted, Answer, Fail, OwnError
<1>5. ASSUME NEW l \in Loops,
             Notice(l) \/ Round(l) \/ Closed(l) \/ Connecting(l) \/ Connected(l) \/ Surprise(l)
      PROVE  command' \in [Commands -> Command]
    BY <1>1, <1>2, <1>5 DEF Notice, Round, Closed, Connecting, Connected, Surprise
<1>6. CASE Outage \/ Return \/ UNCHANGED vars
    BY <1>1, <1>6 DEF Outage, Return, vars
<1> QED
    BY <1>3, <1>4, <1>5, <1>6 DEF Next

LEMMA StagesType == ASSUME Stages, [Next]_vars PROVE Stages'
<1> USE ClientAssumption DEF Stages, Client
<1>1. ASSUME NEW c \in Commands,
             Grant(c) \/ Take(c) \/ Exhausted(c) \/ Answer(c) \/ Fail(c) \/ OwnError(c)
      PROVE  Stages'
    BY <1>1 DEF Grant, Take, Exhausted, Answer, Fail, OwnError
<1>2. ASSUME NEW l \in Loops,
             Notice(l) \/ Round(l) \/ Closed(l) \/ Connecting(l) \/ Connected(l) \/ Surprise(l)
      PROVE  Stages'
    BY <1>2 DEF Notice, Round, Closed, Connecting, Connected, Surprise
<1>3. CASE Outage \/ Return \/ UNCHANGED vars
    BY <1>3 DEF Outage, Return, vars
<1> QED
    BY <1>1, <1>2, <1>3 DEF Next

LEMMA FlagsType == ASSUME Flags, [Next]_vars PROVE Flags'
<1> USE DEF Flags, Client
<1>1. ASSUME NEW c \in Commands,
             Grant(c) \/ Take(c) \/ Exhausted(c) \/ Answer(c) \/ Fail(c) \/ OwnError(c)
      PROVE  Flags'
    BY <1>1, Zenon DEF Grant, Take, Exhausted, Answer, Fail, OwnError
<1>2. ASSUME NEW l \in Loops, Notice(l) \/ Closed(l) \/ Connecting(l) \/ Surprise(l) PROVE Flags'
    BY <1>2, Zenon DEF Notice, Closed, Connecting, Surprise
<1>3. ASSUME NEW l \in Loops, Round(l) \/ Connected(l) PROVE Flags'
    BY <1>3, Zenon DEF Round, Connected
<1>4. CASE Outage \/ Return \/ UNCHANGED vars
    BY <1>4, Zenon DEF Outage, Return, vars
<1> QED
    BY <1>1, <1>2, <1>3, <1>4 DEF Next

LEMMA TypesStep == Types /\ [Next]_vars => Types'
<1> SUFFICES ASSUME Types, [Next]_vars PROVE Types'
    OBVIOUS
<1>1. Flags' /\ Stages' /\ command' \in [Commands -> Command]
    BY TypesParts, FlagsType, StagesType, CommandsType
<1> QED
    BY <1>1 DEF Types, Flags, Stages

\* Only Take adds to the connections in use.
LEMMA InUseGrows ==
    ASSUME Types, [Next]_vars
    PROVE  \/ InUse' \subseteq InUse
           \/ \E c \in Commands : Cardinality(InUse) < max_connections /\ InUse' = InUse \cup {c}
<1> USE DEF Types, Command, Idle, Client, InUse
<1>1. ASSUME NEW c \in Commands, Take(c), command[c].mine
      PROVE  Cardinality(InUse) < max_connections /\ InUse' = InUse \cup {c}
    BY <1>1 DEF Take
<1>2. ASSUME NEW c \in Commands, Take(c), ~command[c].mine PROVE InUse' \subseteq InUse
    BY <1>2 DEF Take
<1>3. ASSUME NEW c \in Commands, Grant(c) \/ Exhausted(c) \/ Answer(c) \/ Fail(c) \/ OwnError(c)
      PROVE  InUse' \subseteq InUse
    BY <1>3 DEF Grant, Exhausted, Answer, Fail, OwnError
<1>4. ASSUME NEW l \in Loops, Notice(l) \/ Closed(l) \/ Connected(l) \/ Surprise(l)
      PROVE  InUse' \subseteq InUse
    BY <1>4 DEF Notice, Closed, Connected, Surprise
<1>5. ASSUME NEW l \in Loops, Round(l) PROVE InUse' \subseteq InUse
    BY <1>5 DEF Round, Broken
<1>6. ASSUME NEW l \in Loops, Connecting(l) PROVE InUse' \subseteq InUse
    BY <1>6 DEF Connecting, Orphaned
<1>7. CASE Outage \/ Return
    BY <1>7 DEF Outage, Return, Broken
<1>8. CASE UNCHANGED vars
    BY <1>8 DEF vars
<1> QED
    BY <1>1, <1>2, <1>3, <1>4, <1>5, <1>6, <1>7, <1>8 DEF Next

LEMMA InUseFinite == IsFiniteSet(InUse) /\ Cardinality(InUse) \in Nat
<1>1. InUse \subseteq Commands
    BY DEF InUse
<1> QED
    BY <1>1, ClientAssumption, FS_Subset, FS_CardinalityType

LEMMA TypeInit == Init => TypeOK
<1> SUFFICES ASSUME Init PROVE TypeOK
    OBVIOUS
<1>1. InUse = {}
    BY DEF Init, InUse, Idle
<1> QED
    BY <1>1, TypesInit, FS_EmptySet, ClientAssumption DEF TypeOK, Types

LEMMA TypeStep == TypeOK /\ [Next]_vars => TypeOK'
<1> SUFFICES ASSUME TypeOK, [Next]_vars PROVE TypeOK'
    OBVIOUS
<1>1. Types /\ Types'
    BY TypesStep DEF TypeOK, Types
<1>2. Cardinality(InUse') <= max_connections
  <2>1. CASE InUse' \subseteq InUse
    <3>1. Cardinality(InUse') \in Nat /\ Cardinality(InUse') <= Cardinality(InUse)
      BY <2>1, InUseFinite, FS_Subset, FS_CardinalityType
    <3> QED
      BY <3>1, InUseFinite, ClientAssumption DEF TypeOK
  <2>2. CASE \E c \in Commands : Cardinality(InUse) < max_connections /\ InUse' = InUse \cup {c}
    <3>1. PICK c \in Commands : Cardinality(InUse) < max_connections /\ InUse' = InUse \cup {c}
      BY <2>2
    <3>2. Cardinality(InUse') = Cardinality(InUse) \/ Cardinality(InUse') = Cardinality(InUse) + 1
      BY <3>1, InUseFinite, FS_AddElement
    <3> QED
      BY <3>1, <3>2, InUseFinite, ClientAssumption DEF TypeOK
  <2> QED
    BY <1>1, <2>1, <2>2, InUseGrows
<1> QED
    BY <1>1, <1>2 DEF TypeOK, Types

\* Everything keeps its type, and the limit of the pool holds whoever races for
\* its last connection.
THEOREM TypeCorrect == Spec => []TypeOK
    BY TypeInit, TypeStep, PTL DEF Spec

-----------------------------------------------------------------------------
(* The loop.                                                               *)

LEMMA LoopInit == Init => OneLoop /\ HealthyIsUsable
    BY DEF Init, OneLoop, HealthyIsUsable, Running

LEMMA LoopStep ==
    ASSUME TypeOK, OneLoop, HealthyIsUsable, [Next]_vars
    PROVE  OneLoop' /\ HealthyIsUsable'
<1> USE DEF TypeOK, OneLoop, HealthyIsUsable, Running, Client, Disconnected
<1>1. ASSUME NEW c \in Commands,
             Grant(c) \/ Take(c) \/ Exhausted(c) \/ Answer(c) \/ Fail(c) \/ OwnError(c)
      PROVE  OneLoop' /\ HealthyIsUsable'
    BY <1>1 DEF Grant, Take, Exhausted, Answer, Fail, OwnError
<1>2. ASSUME NEW l \in Loops, Notice(l) PROVE OneLoop' /\ HealthyIsUsable'
    BY <1>2 DEF Notice, ToReconnect
<1>3. ASSUME NEW l \in Loops, Round(l) PROVE OneLoop' /\ HealthyIsUsable'
    BY <1>3 DEF Round
<1>4. ASSUME NEW l \in Loops, Closed(l) \/ Connecting(l) PROVE OneLoop' /\ HealthyIsUsable'
    BY <1>4 DEF Closed, Connecting
<1>5. ASSUME NEW l \in Loops, Connected(l) PROVE OneLoop' /\ HealthyIsUsable'
    BY <1>5 DEF Connected
<1>6. ASSUME NEW l \in Loops, Surprise(l) PROVE OneLoop' /\ HealthyIsUsable'
    BY <1>6 DEF Surprise
<1>7. CASE Outage \/ Return \/ UNCHANGED vars
    BY <1>7 DEF Outage, Return, vars
<1> QED
    BY <1>1, <1>2, <1>3, <1>4, <1>5, <1>6, <1>7 DEF Next

\* Never two loops at a time, and the flag is up exactly while there is one: the
\* test and the setting of the flag have no await between them, and the finally
\* of the loop resets it on every way out.
THEOREM SingleLoop == Spec => []OneLoop
<1>1. TypeOK /\ OneLoop /\ HealthyIsUsable /\ [Next]_vars => (TypeOK /\ OneLoop /\ HealthyIsUsable)'
    BY TypeStep, LoopStep
<1> QED
    BY <1>1, TypeInit, LoopInit, PTL DEF Spec

\* A healthy client has a pool that answered and that no loop is about to close.
\* It rests on OneLoop: only the loop makes the client healthy, as its last act.
THEOREM HealthyUsable == Spec => []HealthyIsUsable
<1>1. TypeOK /\ OneLoop /\ HealthyIsUsable /\ [Next]_vars => (TypeOK /\ OneLoop /\ HealthyIsUsable)'
    BY TypeStep, LoopStep
<1> QED
    BY <1>1, TypeInit, LoopInit, PTL DEF Spec

-----------------------------------------------------------------------------
(* What makes a healthy client unhealthy.                                  *)

LEMMA CausesInit == Init => Causes
<1> SUFFICES ASSUME Init PROVE Causes
    OBVIOUS
<1>1. ~up => trouble
    BY Zenon DEF Init
<1>2. \A c \in Commands : ~command[c].mine
    BY DEF Init, Idle
<1> QED
    BY <1>1, <1>2 DEF Causes

LEMMA CausesStep == IInv /\ [Next]_vars => Causes'
<1> SUFFICES ASSUME IInv, [Next]_vars PROVE Causes'
    OBVIOUS
<1> USE DEF IInv, TypeOK, OneLoop, HealthyIsUsable, Running, Causes, Client, Disconnected, Command, Idle
<1>1. ASSUME NEW c \in Commands, Grant(c) \/ Take(c) PROVE Causes'
    BY <1>1 DEF Grant, Take
<1>2. ASSUME NEW c \in Commands, Exhausted(c) \/ Answer(c) \/ Fail(c) \/ OwnError(c) PROVE Causes'
    BY <1>2 DEF Exhausted, Answer, Fail, OwnError
<1>3. ASSUME NEW l \in Loops, Notice(l) \/ Closed(l) \/ Surprise(l) PROVE Causes'
    BY <1>3 DEF Notice, Closed, Surprise
<1>4. ASSUME NEW l \in Loops, Round(l) PROVE Causes'
    BY <1>4 DEF Round, Broken
<1>5. ASSUME NEW l \in Loops, Connecting(l) PROVE Causes'
    BY <1>5 DEF Connecting, Orphaned
<1>6. ASSUME NEW l \in Loops, Connected(l) PROVE Causes'
    BY <1>6 DEF Connected
<1>7. CASE Outage \/ Return \/ UNCHANGED vars
    BY <1>7 DEF Outage, Return, Broken, vars
<1> QED
    BY <1>1, <1>2, <1>3, <1>4, <1>5, <1>6, <1>7 DEF Next

LEMMA InvStep == IInv /\ [Next]_vars => IInv'
    BY TypeStep, LoopStep, CausesStep DEF IInv

LEMMA LossExplained == IInv /\ [Next]_vars => Lost
<1> SUFFICES ASSUME IInv, [Next]_vars, is_healthy, ~is_healthy' PROVE
        \/ trouble'
        \/ \E c \in Commands : command[c].pc = "running" /\ ~command[c].mine /\ command'[c] = Idle
    BY DEF Lost
<1> USE DEF IInv, TypeOK, HealthyIsUsable, OneLoop, Running, Client
<1>1. ASSUME NEW c \in Commands, Fail(c), command[c].mine PROVE trouble'
    BY <1>1 DEF Fail, Causes
<1>2. ASSUME NEW c \in Commands, Fail(c), ~command[c].mine
      PROVE  command[c].pc = "running" /\ ~command[c].mine /\ command'[c] = Idle
    BY <1>2 DEF Fail
<1>3. ASSUME NEW c \in Commands, Exhausted(c) \/ OwnError(c) PROVE trouble'
    BY <1>3 DEF Exhausted, OwnError
<1>4. ASSUME NEW c \in Commands, Grant(c) \/ Take(c) \/ Answer(c) PROVE FALSE
    BY <1>4 DEF Grant, Take, Answer
<1>5. ASSUME NEW l \in Loops,
             Notice(l) \/ Round(l) \/ Closed(l) \/ Connecting(l) \/ Connected(l) \/ Surprise(l)
      PROVE  FALSE
    BY <1>5 DEF Notice, Round, Closed, Connecting, Connected, Surprise
<1>6. CASE Outage \/ Return \/ UNCHANGED vars
    BY <1>6 DEF Outage, Return, vars
<1> QED
    BY <1>1, <1>2, <1>3, <1>4, <1>5, <1>6 DEF Next

\* Health is lost only to a fault since the last connect, or to a command that was
\* under way at it: closing the pool breaks nothing that was started after.
THEOREM LossHasCause == Spec => LostToFaults
<1>1. Init => IInv
    BY TypeInit, LoopInit, CausesInit DEF IInv
<1> QED
    BY <1>1, InvStep, LossExplained, PTL DEF Spec, LostToFaults
=============================================================================
