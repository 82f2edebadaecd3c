---------------------------- MODULE FabricProofs ----------------------------
(* What Fabric does for every number of threads, registers and calls, every *)
(* policy and every sector layout.                                          *)
EXTENDS Fabric, SequenceTheorems, TLAPS

(* TypeOK in three parts, one for each group of variables. *)

StoreTypes ==
  /\ DOMAIN registers \subseteq Addr /\ registers \in [DOMAIN registers -> Lane]
  /\ bloom \subseteq Sector \X Addr

PropagatorTypes ==
  /\ policy \in Policies
  /\ dependents = ChildDependents
  /\ pending \in Seq(EP!PendingEcho)
  /\ processed \in Seq(EP!PendingEcho)
  /\ phase \in {"idle", "propagating"}
  /\ current \in EP!PendingEcho \cup {NoEcho}
  /\ todo \subseteq Addr
  /\ (todo # {} => current # NoEcho)
  /\ stats \in EP!EchoStats
  /\ registry \subseteq Sector \X Addr

ThreadTypes ==
  /\ echoLock \in Threads \cup {Free}
  /\ pc \in [Threads -> Labels]
  /\ call \in [Threads -> Call \cup {NoCall}]
  /\ \A t \in Threads : pc[t] # "idle" => call[t] # NoCall
  /\ old \in [Threads -> {NoLane} \cup Lane]
  /\ \A t \in Threads : pc[t] = "queue" => old[t] # NoLane
  /\ calls \in 0 .. MaxCalls
  /\ alone \in [Threads -> BOOLEAN]

\* Together they are TypeOK.
LEMMA TypeParts == TypeOK <=> StoreTypes /\ PropagatorTypes /\ ThreadTypes
  BY DEF TypeOK, StoreTypes, PropagatorTypes, ThreadTypes

\* Merging lanes gives a lane.
LEMMA XorType == \A x, y \in Lane : EP!Xor(x, y) \in Lane
  BY DEF EP!Xor, Lane

\* A damped copy is an echo.
LEMMA CopyType ==
  ASSUME NEW echo \in EP!PendingEcho
  PROVE  [echo EXCEPT !.depth = (@ + 1) % U8] \in EP!PendingEcho
<1>1. (echo.depth + 1) % U8 \in 0 .. (U8 - 1)
  BY FabricConstants DEF EP!PendingEcho
<1>2. QED  BY <1>1 DEF EP!PendingEcho

\* Counting one more event leaves well-typed counters.
LEMMA CountersType ==
  ASSUME NEW st \in EP!EchoStats
  PROVE  /\ [st EXCEPT !.propagated = @ + 1] \in EP!EchoStats
         /\ [st EXCEPT !.canceled = @ + 1] \in EP!EchoStats
         /\ [st EXCEPT !.bloom_gated = @ + 1] \in EP!EchoStats
         /\ [st EXCEPT !.rotation_damped = @ + 1] \in EP!EchoStats
         /\ [st EXCEPT !.dropped = @ + 1] \in EP!EchoStats
  BY DEF EP!EchoStats

\* The propagator's own handlers keep its types, whatever thread runs them.
LEMMA AcceptTypes ==
  ASSUME PropagatorTypes, NEW delta \in Lane, NEW a \in Addr,
         EP!AcceptEcho(delta, a, LayerOf[a], 0), UNCHANGED registry
  PROVE  PropagatorTypes'
<1> DEFINE echo == [delta |-> delta, source |-> a, depth |-> 0,
                    target_layer |-> LayerOf[a], id |-> 0]
<1>1. echo \in EP!PendingEcho
  BY FabricConstants DEF EP!PendingEcho, EP!Lane, Lane
<1>2. pending' = Append(pending, echo) /\ pending' \in Seq(EP!PendingEcho)
  BY <1>1, AppendProperties DEF EP!AcceptEcho, PropagatorTypes
<1>3. QED  BY <1>2 DEF EP!AcceptEcho, PropagatorTypes

\* So does a refused echo.
LEMMA DropTypes ==
  ASSUME PropagatorTypes, EP!DropEcho, UNCHANGED registry
  PROVE  PropagatorTypes'
  BY CountersType DEF EP!DropEcho, PropagatorTypes

\* So does the start of a propagate call.
LEMMA BeginTypes ==
  ASSUME PropagatorTypes, EP!BeginPropagate, UNCHANGED registry
  PROVE  PropagatorTypes'
  BY EmptySeq DEF EP!BeginPropagate, PropagatorTypes

\* So does its end.
LEMMA EndTypes ==
  ASSUME PropagatorTypes, EP!EndPropagate, UNCHANGED registry
  PROVE  PropagatorTypes'
  BY EmptySeq DEF EP!EndPropagate, PropagatorTypes

\* An echo popped is an echo, its dependents are registers.
LEMMA PopTypes ==
  ASSUME PropagatorTypes, EP!PopEcho, UNCHANGED registry
  PROVE  PropagatorTypes'
<1> USE DEF PropagatorTypes
<1>1. Head(pending) \in EP!PendingEcho /\ Tail(pending) \in Seq(EP!PendingEcho)
  BY HeadTailProperties DEF EP!PopEcho
<1>2. dependents[Head(pending).source] \subseteq Addr
  <2>1. Head(pending).source \in Addr
    BY <1>1 DEF EP!PendingEcho
  <2>2. QED  BY <2>1, FabricConstants DEF ChildDependents
<1>3. current' # NoEcho \/ todo' = {}
  BY <1>1, FabricConstants DEF EP!PopEcho
<1>4. QED  BY <1>1, <1>2, <1>3 DEF EP!PopEcho

\* A visit without a callback keeps the types.
LEMMA SkipTypes ==
  ASSUME PropagatorTypes, NEW d \in todo, Skip(d), UNCHANGED registry
  PROVE  PropagatorTypes'
<1> USE DEF PropagatorTypes, EP!Visiting, EP!Visited
<1>1. CASE EP!SkipGated(d)
  BY <1>1, CountersType DEF EP!SkipGated
<1>2. CASE EP!SkipMissing(d, registers)
  BY <1>2 DEF EP!SkipMissing
<1>3. CASE EP!CancelEcho(d, registers)
  BY <1>3, CountersType DEF EP!CancelEcho
<1>4. CASE EP!DampEcho(d, registers)
  <2> DEFINE copy == [current EXCEPT !.depth = (@ + 1) % U8]
  <2>1. copy \in EP!PendingEcho
    BY CopyType
  <2>2. Append(processed, copy) \in Seq(EP!PendingEcho)
    BY <2>1, AppendProperties
  <2>3. processed' \in Seq(EP!PendingEcho)
    BY <1>4, <2>2 DEF EP!DampEcho
  <2>4. QED  BY <1>4, <2>3, CountersType DEF EP!DampEcho
<1>5. QED  BY <1>1, <1>2, <1>3, <1>4 DEF Skip

\* So does a panic.
LEMMA PanicTypes ==
  ASSUME PropagatorTypes, NEW d \in todo, EP!DampPanic(d, registers), UNCHANGED registry
  PROVE  PropagatorTypes'
  BY EmptySeq, CountersType DEF PropagatorTypes, EP!Visiting, EP!DampPanic

\* A thread that begins a call or a nested write is typed.
LEMMA EnterTypes ==
  ASSUME ThreadTypes, NEW t \in Threads, NEW c \in Call,
         NEW label \in {"read_old", "compute_insert"}, Enter(t, c, label),
         UNCHANGED <<old, echoLock>>, calls' \in 0 .. MaxCalls
  PROVE  ThreadTypes'
<1> USE DEF ThreadTypes, Labels
<1>1. pc' \in [Threads -> Labels] /\ call' \in [Threads -> Call \cup {NoCall}]
  BY DEF Enter
<1>2. c # NoCall
  BY FabricConstants
<1>3. alone' \in [Threads -> BOOLEAN]
  <2> DEFINE others == \A v \in Threads \ {t} : ~Conflicts(v, Footprint(c))
             still(u) == alone[u] /\ ~Conflicts(u, Footprint(c))
  <2>1. alone' = [u \in Threads |-> IF u = t THEN others ELSE still(u)]
    BY DEF Enter
  <2>2. others \in BOOLEAN /\ \A u \in Threads : still(u) \in BOOLEAN
    BY Zenon
  <2> HIDE DEF others, still
  <2>3. QED  BY <2>1, <2>2
<1>4. QED  BY <1>1, <1>2, <1>3 DEF Enter

\* A thread that goes on within its call is typed.
LEMMA GotoTypes ==
  ASSUME ThreadTypes, NEW t \in Threads, NEW label \in Labels, Goto(t, label),
         pc[t] # "idle", label = "queue" => old[t] # NoLane,
         UNCHANGED <<call, old, alone, calls>>, echoLock' \in Threads \cup {Free}
  PROVE  ThreadTypes'
  BY DEF ThreadTypes, Goto

\* So is one that returns.
LEMMA ReturnTypes ==
  ASSUME ThreadTypes, NEW t \in Threads, Return(t),
         UNCHANGED <<old, alone, calls>>, echoLock' \in Threads \cup {Free}
  PROVE  ThreadTypes'
  BY DEF ThreadTypes, Return, Labels

\* A thread between reading and writing runs a call on known registers.
LEMMA BusyCall ==
  ASSUME ThreadTypes, NEW t \in Threads, pc[t] # "idle"
  PROVE  /\ call[t] \in Call
         /\ call[t].target \in Addr /\ call[t].payload \in Lane /\ call[t].delta \in Lane
  BY DEF ThreadTypes, Call

\* The call of a delivery is a call, and none is no call.
LEMMA DeliveryType ==
  ASSUME NEW d \in Addr, NEW delta \in Lane, NEW payload \in Lane
  PROVE  Delivery(d, delta, payload) \in Call \ {NoCall}
<1>1. Delivery(d, delta, payload) \in Call
  BY DEF Delivery, Call
<1>2. QED  BY <1>1, FabricConstants

\* Types of the whole state: the store, the propagator and the threads.
THEOREM TypeCorrect == Spec => []TypeOK
<1>1. Init => TypeOK
  <2> SUFFICES ASSUME Init PROVE StoreTypes /\ PropagatorTypes /\ ThreadTypes
    BY TypeParts
  <2>1. PICK R \in PopulatedSets :
          registers \in [R -> Lane] /\ bloom = {<<SectorOf[a], a>> : a \in R}
    BY DEF Init
  <2>2. DOMAIN registers = R /\ R \subseteq Addr
    BY <2>1, FabricConstants
  <2>3. StoreTypes
    BY <2>1, <2>2, FabricConstants DEF StoreTypes
  <2>4. stats \in EP!EchoStats
    BY DEF Init, EP!EchoStats
  <2>5. PropagatorTypes
    BY <2>4, EmptySeq DEF Init, PropagatorTypes
  <2>6. ThreadTypes
    BY FabricConstants DEF Init, ThreadTypes, Labels
  <2>7. QED  BY <2>3, <2>5, <2>6
<1>2. TypeOK /\ [Next]_vars => TypeOK'
  <2> SUFFICES ASSUME StoreTypes, PropagatorTypes, ThreadTypes, [Next]_vars
               PROVE  StoreTypes' /\ PropagatorTypes' /\ ThreadTypes'
    BY TypeParts DEF TypeOK, StoreTypes, PropagatorTypes, ThreadTypes
  <2>1. ASSUME UNCHANGED <<registers, bloom>>
        PROVE  StoreTypes'
    BY <2>1 DEF StoreTypes
  <2>2. ASSUME UNCHANGED propagator, UNCHANGED registry
        PROVE  PropagatorTypes'
    BY <2>2 DEF PropagatorTypes, propagator
  <2>3. ASSUME NEW t \in Threads, Begin(t)
        PROVE  calls' \in 0 .. MaxCalls
    BY <2>3, FabricConstants DEF Begin, ThreadTypes
  <2>4. ASSUME NEW a \in Addr, NEW value \in Lane,
               registers' = [x \in DOMAIN registers \cup {a} |->
                               IF x = a THEN value ELSE registers[x]],
               UNCHANGED bloom
        PROVE  StoreTypes'
    BY <2>4 DEF StoreTypes
  <2>5. ASSUME NEW t \in Threads, Start(t)
        PROVE  StoreTypes' /\ PropagatorTypes' /\ ThreadTypes'
    <3>1. ASSUME NEW a \in Addr, NEW payload \in Payloads, StartWrite(t, a, payload)
          PROVE  StoreTypes' /\ PropagatorTypes' /\ ThreadTypes'
      <4> DEFINE c == [op |-> "write", target |-> a, operands |-> <<a, a>>,
                       delta |-> {}, payload |-> payload]
      <4>1. c \in Call
        BY FabricConstants DEF Call, Lane
      <4>2. Enter(t, c, "read_old")
        BY <3>1 DEF StartWrite
      <4> HIDE DEF c
      <4>3. ThreadTypes'
        BY <3>1, <4>1, <4>2, <2>3, EnterTypes DEF StartWrite
      <4>4. QED  BY <3>1, <4>3, <2>1, <2>2 DEF StartWrite
    <3>2. ASSUME NEW a \in Addr, NEW delta \in Deltas, StartAdapt(t, a, delta)
          PROVE  StoreTypes' /\ PropagatorTypes' /\ ThreadTypes'
      <4> DEFINE c == [op |-> "adapt", target |-> a, operands |-> <<a, a>>,
                       delta |-> delta, payload |-> Adapted(registers[a], delta)]
      <4>1. c \in Call
        <5>1. registers[a] \in Lane /\ delta \in Lane
          BY <3>2, FabricConstants DEF StartAdapt, StoreTypes
        <5>2. QED  BY <5>1, XorType DEF Call, Adapted
      <4>2. Enter(t, c, "read_old")
        BY <3>2 DEF StartAdapt
      <4> HIDE DEF c
      <4>3. ThreadTypes'
        BY <3>2, <4>1, <4>2, <2>3, EnterTypes DEF StartAdapt
      <4>4. QED  BY <3>2, <4>3, <2>1, <2>2 DEF StartAdapt
    <3>3. ASSUME NEW a \in Addr, NEW delta \in Deltas, AdaptRaw(t, a, delta)
          PROVE  StoreTypes' /\ PropagatorTypes' /\ ThreadTypes'
      <4>1. a \in DOMAIN registers /\ EP!Xor(registers[a], delta) \in Lane
        BY <3>3, XorType, FabricConstants DEF AdaptRaw, StoreTypes
      <4>2. StoreTypes'
        BY <3>3, <4>1 DEF AdaptRaw, StoreTypes
      <4>3. alone' \in [Threads -> BOOLEAN]
        <5> DEFINE still(u) == alone[u] /\ ~Conflicts(u, {a})
        <5>1. \A u \in Threads : still(u) \in BOOLEAN
          BY Zenon
        <5>2. alone' = [u \in Threads |-> still(u)]
          BY <3>3 DEF AdaptRaw
        <5> HIDE DEF still
        <5>3. QED  BY <5>1, <5>2
      <4>4. ThreadTypes'
        BY <3>3, <4>3, <2>3 DEF AdaptRaw, ThreadTypes
      <4>5. QED  BY <3>3, <4>2, <4>4, <2>2 DEF AdaptRaw
    <3>4. ASSUME NEW op \in ComputeOps, ComputeRead(t, op)
          PROVE  StoreTypes' /\ PropagatorTypes' /\ ThreadTypes'
      <4> DEFINE c == [op |-> "compute", target |-> op[3], operands |-> <<op[1], op[2]>>,
                       delta |-> {},
                       payload |-> EP!Xor(registers[op[1]], registers[op[2]])]
      <4>1. c \in Call
        <5>1. op[1] \in Addr /\ op[2] \in Addr /\ op[3] \in Addr
          BY FabricConstants
        <5>2. registers[op[1]] \in Lane /\ registers[op[2]] \in Lane
          BY <3>4 DEF ComputeRead, StoreTypes
        <5>3. QED  BY <5>1, <5>2, XorType DEF Call, Lane
      <4>2. Enter(t, c, "compute_insert")
        BY <3>4 DEF ComputeRead
      <4> HIDE DEF c
      <4>3. ThreadTypes'
        BY <3>4, <4>1, <4>2, <2>3, EnterTypes DEF ComputeRead
      <4>4. QED  BY <3>4, <4>3, <2>1, <2>2 DEF ComputeRead
    <3>5. QED  BY <2>5, <3>1, <3>2, <3>3, <3>4 DEF Start
  <2>6. ASSUME NEW t \in Threads, Step(t)
        PROVE  StoreTypes' /\ PropagatorTypes' /\ ThreadTypes'
    <3>0. echoLock \in Threads \cup {Free} /\ Free \in Threads \cup {Free}
      BY DEF ThreadTypes
    <3>1. CASE WriteReadOld(t)
      <4>1. call[t] \in Call /\ call[t].payload \in Lane
        BY <3>1, BusyCall DEF WriteReadOld
      <4>2. old' \in [Threads -> {NoLane} \cup Lane]
        <5>1. call[t].target \in DOMAIN registers =>
                EP!Xor(registers[call[t].target], call[t].payload) \in Lane
          BY <4>1, XorType DEF StoreTypes
        <5>2. QED  BY <3>1, <5>1 DEF WriteReadOld, ThreadTypes
      <4>3. ThreadTypes'
        BY <3>1, <4>2 DEF WriteReadOld, ThreadTypes, Goto, Labels
      <4>4. QED  BY <3>1, <4>3, <2>1, <2>2 DEF WriteReadOld
    <3>2. CASE WriteInsert(t)
      <4>1. call[t].target \in Addr /\ call[t].payload \in Lane
        BY <3>2, BusyCall DEF WriteInsert
      <4>2. StoreTypes'
        BY <3>2, <4>1, <2>4 DEF WriteInsert
      <4>3. ThreadTypes'
        BY <3>2 DEF WriteInsert, ThreadTypes, Goto, Labels
      <4>4. QED  BY <3>2, <4>2, <4>3, <2>2 DEF WriteInsert
    <3>3. CASE WriteQueueEcho(t)
      <4>1. call[t].target \in Addr /\ old[t] \in Lane
        BY <3>3, BusyCall DEF WriteQueueEcho, ThreadTypes
      <4>2. PropagatorTypes'
        BY <3>3, <4>1, AcceptTypes, DropTypes DEF WriteQueueEcho
      <4>3. ThreadTypes'
        BY <3>3 DEF WriteQueueEcho, ThreadTypes, Goto, Labels
      <4>4. QED  BY <3>3, <4>2, <4>3, <2>1 DEF WriteQueueEcho
    <3>4. CASE WriteFinish(t)
      <4>1. call[t].target \in Addr
        BY <3>4, BusyCall DEF WriteFinish
      <4>2. StoreTypes'
        BY <3>4, <4>1, FabricConstants DEF WriteFinish, StoreTypes
      <4>3. ThreadTypes'
        BY <3>4, <3>0, GotoTypes, ReturnTypes DEF WriteFinish, Labels
      <4>4. QED  BY <3>4, <4>2, <4>3, <2>2 DEF WriteFinish
    <3>5. CASE AdaptInject(t)
      <4>1. call[t].target \in Addr /\ call[t].delta \in Lane
        BY <3>5, BusyCall DEF AdaptInject
      <4>2. PropagatorTypes'
        BY <3>5, <4>1, AcceptTypes, DropTypes DEF AdaptInject
      <4>3. ThreadTypes'
        BY <3>5, <3>0, GotoTypes, ReturnTypes DEF AdaptInject, Labels
      <4>4. QED  BY <3>5, <4>2, <4>3, <2>1 DEF AdaptInject
    <3>6. CASE AdaptBegin(t)
      <4>1. ThreadTypes'
        BY <3>6, GotoTypes DEF AdaptBegin, Labels
      <4>2. QED  BY <3>6, <4>1, <2>1, BeginTypes DEF AdaptBegin
    <3>7. CASE AdaptEcho(t)
      <4>1. ThreadTypes'
        BY <3>7 DEF AdaptEcho, ThreadTypes
      <4>2. PropagatorTypes'
        BY <3>7, PopTypes, SkipTypes DEF AdaptEcho
      <4>3. QED  BY <3>7, <4>1, <4>2, <2>1 DEF AdaptEcho
    <3>8. CASE AdaptLookup(t)
      <4>1. PICK d \in todo : call' = [call EXCEPT ![t] = Delivery(d, current.delta, {})]
        BY <3>8 DEF AdaptLookup
      <4>2. Delivery(d, current.delta, {}) \in Call \ {NoCall}
        <5>1. d \in Addr /\ current.delta \in Lane /\ {} \in Lane
          BY DEF PropagatorTypes, EP!PendingEcho, EP!Lane, Lane
        <5>2. QED  BY <5>1, DeliveryType
      <4>3. ThreadTypes'
        BY <3>8, <4>1, <4>2 DEF AdaptLookup, ThreadTypes, Goto, Labels
      <4>4. QED  BY <3>8, <4>3, <2>1, <2>2 DEF AdaptLookup
    <3>9. CASE AdaptDeliver(t)
      <4> DEFINE d == call[t].target
                 delta == call[t].delta
                 c == Delivery(d, delta, Adapted(registers[d], delta))
      <4>1. c \in Call
        <5>1. d \in Addr /\ delta \in Lane
          BY <3>9, BusyCall DEF AdaptDeliver
        <5>2. registers[d] \in Lane
          BY <3>9 DEF AdaptDeliver, StoreTypes
        <5>3. QED  BY <5>1, <5>2, XorType, DeliveryType DEF Adapted
      <4>2. Enter(t, c, "read_old")
        BY <3>9 DEF AdaptDeliver
      <4> HIDE DEF c
      <4>3. calls' \in 0 .. MaxCalls
        BY <3>9 DEF AdaptDeliver, ThreadTypes
      <4>4. ThreadTypes'
        BY <3>9, <4>1, <4>2, <4>3, EnterTypes DEF AdaptDeliver
      <4>5. QED  BY <3>9, <4>4, <2>1, <2>2 DEF AdaptDeliver
    <3>10. CASE AdaptPanic(t)
      <4>1. ThreadTypes'
        BY <3>10, <3>0, ReturnTypes DEF AdaptPanic
      <4>2. QED  BY <3>10, <4>1, <2>1, PanicTypes DEF AdaptPanic
    <3>11. CASE AdaptEnd(t)
      <4>1. ThreadTypes'
        BY <3>11, <3>0, ReturnTypes DEF AdaptEnd
      <4>2. QED  BY <3>11, <4>1, <2>1, EndTypes DEF AdaptEnd
    <3>12. CASE ComputeInsert(t)
      <4>1. call[t].target \in Addr /\ call[t].payload \in Lane
        BY <3>12, BusyCall DEF ComputeInsert
      <4>2. StoreTypes'
        BY <3>12, <4>1, <2>4 DEF ComputeInsert
      <4>3. ThreadTypes'
        BY <3>12 DEF ComputeInsert, ThreadTypes, Return, Labels
      <4>4. QED  BY <3>12, <4>2, <4>3, <2>2 DEF ComputeInsert
    <3>13. QED
      BY <2>6, <3>1, <3>2, <3>3, <3>4, <3>5, <3>6, <3>7, <3>8, <3>9, <3>10, <3>11, <3>12 DEF Step
  <2>7. CASE UNCHANGED vars
    <3>1. ThreadTypes'
      BY <2>7 DEF vars, ThreadTypes
    <3>2. QED  BY <2>7, <3>1, <2>1, <2>2 DEF vars
  <2>8. QED  BY <2>5, <2>6, <2>7 DEF Next
<1>3. QED  BY <1>1, <1>2, PTL DEF Spec

-----------------------------------------------------------------------------
(* Self-deadlock. *)

\* Under a gated policy no thread that holds the propagator's lock is inside a write: the
\* gate asks a registry that nobody fills, so no callback runs.
THEOREM GatedNeverWaitsForItself == Spec => []SelfDeadlockOnlyUngated
<1> USE DEF GatedInv
<1>1. Init => GatedInv
  BY FabricConstants DEF Init
<1>2. TypeOK /\ GatedInv /\ [Next]_vars => GatedInv'
  <2> SUFFICES ASSUME ThreadTypes, GatedInv, [Next]_vars
               PROVE  GatedInv'
    BY TypeParts
  <2> USE DEF ThreadTypes
  <2>1. ASSUME NEW t \in Threads, Start(t)
        PROVE  GatedInv'
    BY <2>1 DEF Start, StartWrite, StartAdapt, AdaptRaw, ComputeRead, Begin, Enter, propagator
  <2>2. ASSUME NEW t \in Threads, Step(t)
        PROVE  GatedInv'
    <3> USE DEF Goto, Return, propagator
    <3>1. CASE WriteReadOld(t)
      BY <3>1 DEF WriteReadOld
    <3>2. CASE WriteInsert(t)
      BY <3>2 DEF WriteInsert
    <3>3. CASE WriteQueueEcho(t)
      BY <3>3 DEF WriteQueueEcho, EP!AcceptEcho, EP!DropEcho
    <3>4. CASE WriteFinish(t)
      BY <3>4 DEF WriteFinish
    <3>5. CASE AdaptInject(t)
      BY <3>5 DEF AdaptInject, EP!AcceptEcho, EP!DropEcho
    <3>6. CASE AdaptBegin(t)
      BY <3>6 DEF AdaptBegin, EP!BeginPropagate
    <3>7. CASE AdaptEcho(t)
      BY <3>7 DEF AdaptEcho, Skip, EP!PopEcho, EP!SkipGated, EP!SkipMissing, EP!CancelEcho,
         EP!DampEcho, EP!Visited
    <3>8. CASE AdaptLookup(t)
      BY <3>8 DEF AdaptLookup, EP!GateOpen
    <3>9. CASE AdaptDeliver(t)
      BY <3>9 DEF AdaptDeliver, Enter
    <3>10. CASE AdaptPanic(t)
      BY <3>10, FabricConstants DEF AdaptPanic, EP!DampPanic
    <3>11. CASE AdaptEnd(t)
      BY <3>11, FabricConstants DEF AdaptEnd, EP!EndPropagate
    <3>12. CASE ComputeInsert(t)
      BY <3>12 DEF ComputeInsert
    <3>13. QED
      BY <2>2, <3>1, <3>2, <3>3, <3>4, <3>5, <3>6, <3>7, <3>8, <3>9, <3>10, <3>11, <3>12 DEF Step
  <2>3. CASE UNCHANGED vars
    BY <2>3 DEF vars, propagator
  <2>4. QED  BY <2>1, <2>2, <2>3 DEF Next
<1>3. GatedInv => SelfDeadlockOnlyUngated
  BY DEF SelfDeadlockOnlyUngated, SelfDeadlock
<1>4. QED  BY <1>1, <1>2, <1>3, TypeCorrect, PTL DEF Spec

-----------------------------------------------------------------------------
(* Isolation. *)

\* A step in which thread t reads registers: it knows the store as it is, and whoever
\* shares registers with it knows that it may not.
LEMMA EnterIsolates ==
  ASSUME ThreadTypes, IsolationInv, NEW t \in Threads, ~InWindow(t), NEW c \in Call,
         NEW label \in {"read_old", "compute_insert"}, Enter(t, c, label),
         UNCHANGED <<registers, old>>,
         c.op = "compute" <=> label = "compute_insert",
         c.op \in {"adapt", "deliver"} => c.target \in DOMAIN registers,
         c.op = "compute" => {c.operands[1], c.operands[2]} \subseteq DOMAIN registers,
         c.payload = Outcome(c)
  PROVE  IsolationInv'
<1> USE DEF IsolationInv, ThreadTypes
<1>1. /\ pc'[t] = label /\ call'[t] = c
      /\ alone'[t] => \A v \in Threads \ {t} : ~Conflicts(v, Footprint(c))
  BY DEF Enter
<1>2. ASSUME NEW u \in Threads \ {t}
      PROVE  /\ pc'[u] = pc[u] /\ call'[u] = call[u]
             /\ alone'[u] => alone[u] /\ ~Conflicts(u, Footprint(c))
  BY <1>2 DEF Enter
<1>3. ASSUME NEW u \in Threads
      PROVE  Ready(u)' /\ Fresh(u)'
  <2>1. CASE u = t
    BY <1>1, <2>1 DEF Ready, Fresh, InWindow, Outcome, Change
  <2>2. CASE u # t
    <3>1. /\ pc'[u] = pc[u] /\ call'[u] = call[u] /\ old'[u] = old[u]
          /\ registers' = registers /\ (alone'[u] => alone[u])
      BY <1>2, <2>2
    <3>2. Outcome(call[u])' = Outcome(call[u])
      BY <3>1 DEF Outcome
    <3>3. Change(u)' = Change(u)
      BY <3>1 DEF Change
    <3>4. QED  BY <3>1, <3>2, <3>3 DEF Ready, Fresh, InWindow
  <2>3. QED  BY <2>1, <2>2
<1>4. ASSUME NEW u \in Threads
      PROVE  Apart(u)'
  BY <1>1, <1>2 DEF Apart, InWindow, Conflicts
<1>5. QED  BY <1>3, <1>4

\* A step after which the store differs in register a at most.
OnlyChanges(a) ==
  /\ DOMAIN registers \subseteq DOMAIN registers'
  /\ DOMAIN registers' \subseteq DOMAIN registers \cup {a}
  /\ \A x \in DOMAIN registers : x # a => registers'[x] = registers[x]

\* A write to register a, seen by a call that is not isolated or does not use a.
LEMMA StoreIsolates ==
  ASSUME NEW u \in Threads, NEW a, OnlyChanges(a), Ready(u), Fresh(u),
         InWindow(u) /\ alone[u] => a \notin Footprint(call[u]),
         pc'[u] = pc[u], call'[u] = call[u], old'[u] = old[u], alone'[u] => alone[u]
  PROVE  Ready(u)' /\ Fresh(u)'
<1>1. \A x \in DOMAIN registers : x \in DOMAIN registers' /\ (x # a => registers'[x] = registers[x])
  BY DEF OnlyChanges
<1>2. \A x : x # a => (x \in DOMAIN registers' <=> x \in DOMAIN registers)
  BY DEF OnlyChanges
<1>3. Ready(u)'
  BY <1>1 DEF Ready, InWindow
<1>4. CASE InWindow(u) /\ alone'[u]
  <2>1. /\ call[u].target # a /\ call[u].operands[1] # a /\ call[u].operands[2] # a
    BY <1>4 DEF Footprint
  <2>2. Outcome(call[u])' = Outcome(call[u])
    BY <1>1, <2>1, <1>4 DEF Outcome, Ready
  <2>3. Change(u)' = Change(u)
    BY <1>1, <1>2, <2>1 DEF Change
  <2>4. QED  BY <1>3, <1>4, <2>2, <2>3 DEF Fresh, InWindow
<1>5. CASE ~(InWindow(u) /\ alone'[u])
  BY <1>3, <1>5 DEF Fresh, InWindow
<1>6. QED  BY <1>4, <1>5

\* A step of a thread outside its window that leaves the store alone.
LEMMA QuietIsolates ==
  ASSUME IsolationInv, NEW t \in Threads, UNCHANGED <<registers, alone>>,
         ~InWindow(t), ~InWindow(t)',
         \A u \in Threads \ {t} : pc'[u] = pc[u] /\ call'[u] = call[u] /\ old'[u] = old[u]
  PROVE  IsolationInv'
<1> USE DEF IsolationInv
<1>1. ASSUME NEW u \in Threads
      PROVE  Ready(u)' /\ Fresh(u)'
  <2>1. CASE u = t
    BY <2>1 DEF Ready, Fresh
  <2>2. CASE u # t
    <3>1. pc'[u] = pc[u] /\ call'[u] = call[u] /\ old'[u] = old[u]
      BY <2>2
    <3>2. Outcome(call[u])' = Outcome(call[u]) /\ Change(u)' = Change(u)
      BY <3>1 DEF Outcome, Change
    <3>3. QED  BY <3>1, <3>2 DEF Ready, Fresh, InWindow
  <2>3. QED  BY <2>1, <2>2
<1>2. ASSUME NEW u \in Threads
      PROVE  Apart(u)'
  <2>1. CASE u = t
    BY <2>1 DEF Apart
  <2>2. CASE u # t
    BY <2>2 DEF Apart, InWindow, Conflicts
  <2>3. QED  BY <2>1, <2>2
<1>3. QED  BY <1>1, <1>2

\* A step in which thread t writes its register and leaves its window.
LEMMA InsertIsolates ==
  ASSUME ThreadTypes, IsolationInv, NEW t \in Threads, InWindow(t), ~InWindow(t)',
         registers' = [x \in DOMAIN registers \cup {call[t].target} |->
                         IF x = call[t].target THEN call[t].payload ELSE registers[x]],
         alone' = [alone EXCEPT ![t] = TRUE],
         \A u \in Threads \ {t} : pc'[u] = pc[u] /\ call'[u] = call[u],
         UNCHANGED old
  PROVE  IsolationInv'
<1> USE DEF IsolationInv
<1>1. ASSUME NEW u \in Threads \ {t}
      PROVE  pc'[u] = pc[u] /\ call'[u] = call[u] /\ alone'[u] = alone[u]
  BY <1>1 DEF ThreadTypes
<1>2. ASSUME NEW u \in Threads \ {t}, InWindow(u), alone[u]
      PROVE  call[t].target \notin Footprint(call[u])
  BY <1>2 DEF Apart, Conflicts, Footprint
<1>3. ASSUME NEW u \in Threads
      PROVE  Ready(u)' /\ Fresh(u)'
  <2>1. CASE u = t
    BY <2>1 DEF Ready, Fresh
  <2>2. CASE u # t
    <3>1. PICK a : a = call[t].target
      OBVIOUS
    <3>2. OnlyChanges(a)
      BY <3>1 DEF OnlyChanges
    <3>3. InWindow(u) /\ alone[u] => a \notin Footprint(call[u])
      BY <1>2, <2>2, <3>1
    <3>4. Ready(u) /\ Fresh(u)
      OBVIOUS
    <3>5. QED  BY <1>1, <2>2, <3>2, <3>3, <3>4, StoreIsolates
  <2>3. QED  BY <2>1, <2>2
<1>4. ASSUME NEW u \in Threads
      PROVE  Apart(u)'
  <2>1. CASE u = t
    BY <2>1 DEF Apart
  <2>2. CASE u # t
    BY <1>1, <2>2 DEF Apart, InWindow, Conflicts
  <2>3. QED  BY <2>1, <2>2
<1>5. QED  BY <1>3, <1>4

\* A call that overlaps no other on its registers inserts its operation's result on the
\* store as it is, and queues the change as its echo, however many threads run.
THEOREM IsolatedCallsCommute == Spec => []NoInterference
<1>1. Init => IsolationInv
  BY DEF Init, IsolationInv, Ready, Apart, Fresh, InWindow
<1>2. TypeOK /\ IsolationInv /\ [Next]_vars => IsolationInv'
  <2> SUFFICES ASSUME StoreTypes, PropagatorTypes, ThreadTypes, IsolationInv, [Next]_vars
               PROVE  IsolationInv'
    BY TypeParts
  <2>1. ASSUME NEW t \in Threads, Start(t)
        PROVE  IsolationInv'
    <3>1. ASSUME NEW a \in Addr, NEW payload \in Payloads, StartWrite(t, a, payload)
          PROVE  IsolationInv'
      <4> DEFINE c == [op |-> "write", target |-> a, operands |-> <<a, a>>,
                       delta |-> {}, payload |-> payload]
      <4>1. c \in Call
        BY FabricConstants DEF Call, Lane
      <4>2. c.op = "write" /\ c.payload = Outcome(c)
        BY DEF Outcome
      <4>3. Enter(t, c, "read_old") /\ ~InWindow(t)
        BY <3>1 DEF StartWrite, Begin, InWindow
      <4> HIDE DEF c
      <4>4. QED  BY <3>1, <4>1, <4>2, <4>3, EnterIsolates DEF StartWrite
    <3>2. ASSUME NEW a \in Addr, NEW delta \in Deltas, StartAdapt(t, a, delta)
          PROVE  IsolationInv'
      <4> DEFINE c == [op |-> "adapt", target |-> a, operands |-> <<a, a>>,
                       delta |-> delta, payload |-> Adapted(registers[a], delta)]
      <4>1. c \in Call
        <5>1. registers[a] \in Lane /\ delta \in Lane
          BY <3>2, FabricConstants DEF StartAdapt, StoreTypes
        <5>2. QED  BY <5>1, XorType DEF Call, Adapted
      <4>2. c.op = "adapt" /\ c.target \in DOMAIN registers /\ c.payload = Outcome(c)
        BY <3>2 DEF Outcome, Adapted, StartAdapt
      <4>3. Enter(t, c, "read_old") /\ ~InWindow(t)
        BY <3>2 DEF StartAdapt, Begin, InWindow
      <4> HIDE DEF c
      <4>4. QED  BY <3>2, <4>1, <4>2, <4>3, EnterIsolates DEF StartAdapt
    <3>3. ASSUME NEW a \in Addr, NEW delta \in Deltas, AdaptRaw(t, a, delta)
          PROVE  IsolationInv'
      <4>1. OnlyChanges(a)
        BY <3>3 DEF AdaptRaw, StoreTypes, OnlyChanges
      <4>2. ASSUME NEW u \in Threads
            PROVE  alone'[u] => alone[u] /\ ~Conflicts(u, {a})
        BY <3>3, <4>2 DEF AdaptRaw
      <4>3. ASSUME NEW u \in Threads
            PROVE  Apart(u)'
        BY <3>3, <4>2 DEF AdaptRaw, IsolationInv, Apart, InWindow, Conflicts
      <4>4. ASSUME NEW u \in Threads
            PROVE  Ready(u)' /\ Fresh(u)'
        <5>1. CASE alone'[u]
          <6>1. InWindow(u) => a \notin Footprint(call[u])
            BY <4>2, <5>1 DEF Conflicts
          <6>2. QED
            BY <3>3, <4>1, <4>2, <5>1, <6>1, StoreIsolates DEF AdaptRaw, IsolationInv
        <5>2. CASE ~alone'[u]
          BY <3>3, <4>1, <5>2 DEF AdaptRaw, OnlyChanges, IsolationInv, Ready, Fresh, InWindow
        <5>3. QED  BY <5>1, <5>2
      <4>5. QED  BY <4>3, <4>4 DEF IsolationInv
    <3>4. ASSUME NEW op \in ComputeOps, ComputeRead(t, op)
          PROVE  IsolationInv'
      <4> DEFINE c == [op |-> "compute", target |-> op[3], operands |-> <<op[1], op[2]>>,
                       delta |-> {},
                       payload |-> EP!Xor(registers[op[1]], registers[op[2]])]
      <4>1. c \in Call
        <5>1. op[1] \in Addr /\ op[2] \in Addr /\ op[3] \in Addr
          BY FabricConstants
        <5>2. registers[op[1]] \in Lane /\ registers[op[2]] \in Lane
          BY <3>4 DEF ComputeRead, StoreTypes
        <5>3. QED  BY <5>1, <5>2, XorType DEF Call, Lane
      <4>2. /\ c.op = "compute" /\ c.payload = Outcome(c)
            /\ {c.operands[1], c.operands[2]} \subseteq DOMAIN registers
        BY <3>4 DEF Outcome, ComputeRead
      <4>3. Enter(t, c, "compute_insert") /\ ~InWindow(t)
        BY <3>4 DEF ComputeRead, Begin, InWindow
      <4> HIDE DEF c
      <4>4. QED  BY <3>4, <4>1, <4>2, <4>3, EnterIsolates DEF ComputeRead
    <3>5. QED  BY <2>1, <3>1, <3>2, <3>3, <3>4 DEF Start
  <2>2. ASSUME NEW t \in Threads, Step(t)
        PROVE  IsolationInv'
    <3>1. CASE WriteReadOld(t)
      <4>1. /\ pc'[t] = "insert" /\ old'[t] = Change(t) /\ InWindow(t)
            /\ UNCHANGED <<registers, call, alone>>
            /\ \A u \in Threads \ {t} : pc'[u] = pc[u] /\ old'[u] = old[u]
        BY <3>1 DEF WriteReadOld, Goto, ThreadTypes, InWindow, Change
      <4>2. ASSUME NEW u \in Threads
            PROVE  Outcome(call[u])' = Outcome(call[u]) /\ Change(u)' = Change(u)
        BY <4>1 DEF Outcome, Change
      <4>3. \A u \in Threads : InWindow(u)' <=> InWindow(u)
        BY <4>1 DEF InWindow
      <4>4. ASSUME NEW u \in Threads
            PROVE  Ready(u)' /\ Fresh(u)'
        BY <3>1, <4>1, <4>2, <4>3 DEF IsolationInv, Ready, Fresh, WriteReadOld
      <4>5. ASSUME NEW u \in Threads
            PROVE  Apart(u)'
        BY <4>1, <4>3 DEF IsolationInv, Apart, Conflicts
      <4>6. QED  BY <4>4, <4>5 DEF IsolationInv
    <3>2. CASE WriteInsert(t)
      BY <3>2, InsertIsolates DEF WriteInsert, Goto, ThreadTypes, InWindow
    <3>3. CASE WriteQueueEcho(t)
      BY <3>3, QuietIsolates DEF WriteQueueEcho, Goto, ThreadTypes, InWindow
    <3>4. CASE WriteFinish(t)
      BY <3>4, QuietIsolates DEF WriteFinish, Goto, Return, ThreadTypes, InWindow
    <3>5. CASE AdaptInject(t)
      BY <3>5, QuietIsolates DEF AdaptInject, Goto, Return, ThreadTypes, InWindow
    <3>6. CASE AdaptBegin(t)
      BY <3>6, QuietIsolates DEF AdaptBegin, Goto, ThreadTypes, InWindow
    <3>7. CASE AdaptEcho(t)
      BY <3>7, QuietIsolates DEF AdaptEcho, InWindow
    <3>8. CASE AdaptLookup(t)
      BY <3>8, QuietIsolates DEF AdaptLookup, Goto, ThreadTypes, InWindow
    <3>9. CASE AdaptDeliver(t)
      <4> DEFINE d == call[t].target
                 delta == call[t].delta
                 c == Delivery(d, delta, Adapted(registers[d], delta))
      <4>1. c \in Call
        <5>1. d \in Addr /\ delta \in Lane
          BY <3>9, BusyCall DEF AdaptDeliver
        <5>2. registers[d] \in Lane
          BY <3>9 DEF AdaptDeliver, StoreTypes
        <5>3. QED  BY <5>1, <5>2, XorType, DeliveryType DEF Adapted
      <4>2. c.op = "deliver" /\ c.target \in DOMAIN registers /\ c.payload = Outcome(c)
        BY <3>9 DEF AdaptDeliver, Outcome, Adapted, Delivery
      <4>3. Enter(t, c, "read_old") /\ ~InWindow(t)
        BY <3>9 DEF AdaptDeliver, InWindow
      <4> HIDE DEF c
      <4>4. QED  BY <3>9, <4>1, <4>2, <4>3, EnterIsolates DEF AdaptDeliver
    <3>10. CASE AdaptPanic(t)
      BY <3>10, QuietIsolates DEF AdaptPanic, Return, ThreadTypes, InWindow
    <3>11. CASE AdaptEnd(t)
      BY <3>11, QuietIsolates DEF AdaptEnd, Return, ThreadTypes, InWindow
    <3>12. CASE ComputeInsert(t)
      BY <3>12, InsertIsolates DEF ComputeInsert, Return, ThreadTypes, InWindow
    <3>13. QED
      BY <2>2, <3>1, <3>2, <3>3, <3>4, <3>5, <3>6, <3>7, <3>8, <3>9, <3>10, <3>11, <3>12 DEF Step
  <2>3. CASE UNCHANGED vars
    <3>1. UNCHANGED <<registers, pc, call, old, alone>>
      BY <2>3 DEF vars
    <3>2. QED
      BY <3>1 DEF IsolationInv, Ready, Apart, Fresh, InWindow, Conflicts, Outcome, Change
  <2>4. QED  BY <2>1, <2>2, <2>3 DEF Next
<1>3. IsolationInv => NoInterference
  BY DEF IsolationInv, Fresh, InWindow, NoInterference
<1>4. QED  BY <1>1, <1>2, <1>3, TypeCorrect, PTL DEF Spec

-----------------------------------------------------------------------------
(* The bloom registry and the full queue. *)

\* Whatever a write put into the store is in the fabric's bloom registry once the write
\* has returned; only compute inserts registers the filters never learn of.
THEOREM WritesAreListed == Spec => []BloomCoversWrites
<1> USE DEF ListedInv
<1>1. Init => ListedInv
  BY DEF Init, BloomCoversWrites
<1>2. TypeOK /\ ListedInv /\ [Next]_vars => ListedInv'
  <2> SUFFICES ASSUME ThreadTypes, ListedInv, [Next]_vars
               PROVE  ListedInv'
    BY TypeParts
  <2> USE DEF ThreadTypes
  <2>1. ASSUME UNCHANGED <<registers, bloom>>, NEW t \in Threads,
               pc[t] \notin {"queue", "finish"} \/ (pc'[t] = "finish" /\ call'[t] = call[t]),
               pc'[t] = "compute_insert" => call'[t].target \in ComputeTargets,
               \A u \in Threads \ {t} : pc'[u] = pc[u] /\ call'[u] = call[u]
        PROVE  ListedInv'
    <3>1. \A u \in Threads : pc'[u] = "compute_insert" => call'[u].target \in ComputeTargets
      BY <2>1
    <3>2. ASSUME NEW a \in DOMAIN registers \ ComputeTargets, NEW u \in Threads,
                 call[u] # NoCall, call[u].target = a, pc[u] \in {"queue", "finish"}
          PROVE  call'[u] # NoCall /\ call'[u].target = a /\ pc'[u] \in {"queue", "finish"}
      BY <2>1, <3>2
    <3>3. BloomCoversWrites'
      BY <2>1, <3>2 DEF BloomCoversWrites
    <3>4. QED  BY <3>1, <3>3
  <2>2. ASSUME NEW t \in Threads, Start(t)
        PROVE  ListedInv'
    <3>0. pc[t] = "idle"
      BY <2>2 DEF Start, StartWrite, StartAdapt, AdaptRaw, ComputeRead, Begin
    <3>1. ASSUME NEW a \in Addr, NEW payload \in Payloads, StartWrite(t, a, payload)
          PROVE  ListedInv'
      BY <2>1, <3>0, <3>1 DEF StartWrite, Enter
    <3>2. ASSUME NEW a \in Addr, NEW delta \in Deltas, StartAdapt(t, a, delta)
          PROVE  ListedInv'
      BY <2>1, <3>0, <3>2 DEF StartAdapt, Enter
    <3>3. ASSUME NEW a \in Addr, NEW delta \in Deltas, AdaptRaw(t, a, delta)
          PROVE  ListedInv'
      BY <3>3 DEF AdaptRaw, BloomCoversWrites
    <3>4. ASSUME NEW op \in ComputeOps, ComputeRead(t, op)
          PROVE  ListedInv'
      BY <2>1, <3>0, <3>4 DEF ComputeRead, Enter, ComputeTargets
    <3>5. QED  BY <2>2, <3>1, <3>2, <3>3, <3>4 DEF Start
  <2>3. ASSUME NEW t \in Threads, Step(t)
        PROVE  ListedInv'
    <3> USE DEF Goto, Return
    <3>1. CASE WriteReadOld(t)
      BY <2>1, <3>1 DEF WriteReadOld
    <3>2. CASE WriteInsert(t)
      <4>1. /\ DOMAIN registers' = DOMAIN registers \cup {call[t].target}
            /\ bloom' = bloom /\ call' = call /\ call[t] # NoCall
            /\ pc[t] = "insert" /\ pc'[t] \in {"queue", "finish"}
            /\ \A u \in Threads \ {t} : pc'[u] = pc[u]
        BY <3>2 DEF WriteInsert
      <4>2. QED  BY <4>1 DEF BloomCoversWrites
    <3>3. CASE WriteQueueEcho(t)
      BY <2>1, <3>3 DEF WriteQueueEcho
    <3>4. CASE WriteFinish(t)
      <4>1. /\ bloom' = bloom \cup {<<SectorOf[call[t].target], call[t].target>>}
            /\ registers' = registers /\ pc'[t] \in {"inject", "idle"}
            /\ \A u \in Threads \ {t} : pc'[u] = pc[u] /\ call'[u] = call[u]
        BY <3>4 DEF WriteFinish
      <4>2. QED  BY <4>1 DEF BloomCoversWrites
    <3>5. CASE AdaptInject(t)
      BY <2>1, <3>5 DEF AdaptInject
    <3>6. CASE AdaptBegin(t)
      BY <2>1, <3>6 DEF AdaptBegin
    <3>7. CASE AdaptEcho(t)
      BY <2>1, <3>7 DEF AdaptEcho
    <3>8. CASE AdaptLookup(t)
      BY <2>1, <3>8 DEF AdaptLookup
    <3>9. CASE AdaptDeliver(t)
      BY <2>1, <3>9 DEF AdaptDeliver, Enter
    <3>10. CASE AdaptPanic(t)
      BY <2>1, <3>10 DEF AdaptPanic
    <3>11. CASE AdaptEnd(t)
      BY <2>1, <3>11 DEF AdaptEnd
    <3>12. CASE ComputeInsert(t)
      <4>1. /\ DOMAIN registers' = DOMAIN registers \cup {call[t].target}
            /\ call[t].target \in ComputeTargets /\ bloom' = bloom
            /\ pc[t] = "compute_insert" /\ pc'[t] = "idle"
            /\ \A u \in Threads \ {t} : pc'[u] = pc[u] /\ call'[u] = call[u]
        BY <3>12 DEF ComputeInsert
      <4>2. QED  BY <4>1 DEF BloomCoversWrites
    <3>13. QED
      BY <2>3, <3>1, <3>2, <3>3, <3>4, <3>5, <3>6, <3>7, <3>8, <3>9, <3>10, <3>11, <3>12 DEF Step
  <2>4. CASE UNCHANGED vars
    BY <2>4 DEF vars, BloomCoversWrites
  <2>5. QED  BY <2>2, <2>3, <2>4 DEF Next
<1>3. ListedInv => BloomCoversWrites
  OBVIOUS
<1>4. QED  BY <1>1, <1>2, <1>3, TypeCorrect, PTL DEF Spec

\* A full queue stays full until a propagate call drains it: no other call, refused or
\* not, makes room.
THEOREM FullQueueStaysFull == Spec => OnlyPropagateDrains
<1> USE DEF HolderInv
<1>1. Init => HolderInv
  BY DEF Init
<1>2. TypeOK /\ HolderInv /\ [Next]_vars => HolderInv'
  <2> SUFFICES ASSUME ThreadTypes, HolderInv, [Next]_vars
               PROVE  HolderInv'
    BY TypeParts
  <2> USE DEF ThreadTypes
  <2>1. ASSUME NEW t \in Threads, Start(t)
        PROVE  HolderInv'
    BY <2>1 DEF Start, StartWrite, StartAdapt, AdaptRaw, ComputeRead, Begin, Enter
  <2>2. ASSUME NEW t \in Threads, Step(t)
        PROVE  HolderInv'
    <3>1. CASE WriteReadOld(t) \/ WriteInsert(t) \/ WriteQueueEcho(t) \/ WriteFinish(t)
                 \/ AdaptInject(t) \/ ComputeInsert(t)
      BY <3>1 DEF WriteReadOld, WriteInsert, WriteQueueEcho, WriteFinish, AdaptInject,
         ComputeInsert, Goto, Return
    <3>2. CASE AdaptBegin(t)
      BY <3>2, FabricConstants DEF AdaptBegin, Goto
    <3>3. CASE AdaptEcho(t) \/ AdaptLookup(t) \/ AdaptDeliver(t)
      BY <3>3 DEF AdaptEcho, AdaptLookup, AdaptDeliver, Enter, Goto
    <3>4. CASE AdaptPanic(t) \/ AdaptEnd(t)
      BY <3>4 DEF AdaptPanic, AdaptEnd, Return
    <3>5. QED  BY <2>2, <3>1, <3>2, <3>3, <3>4 DEF Step
  <2>3. CASE UNCHANGED vars
    BY <2>3 DEF vars
  <2>4. QED  BY <2>1, <2>2, <2>3 DEF Next
<1>3. ASSUME TypeOK, HolderInv, [Next]_vars,
             Len(pending) >= policy.max_queue_size,
             \A t \in Threads : pc[t] # "propagate" /\ echoLock # t
      PROVE  Len(pending') >= policy.max_queue_size
  <2>0. /\ pending \in Seq(EP!PendingEcho) /\ Len(pending) \in Nat
        /\ policy.max_queue_size \in Nat
    BY <1>3, LenProperties, FabricConstants DEF TypeOK, EP!EchoPolicy
  <2>1. pending' = pending \/ \E echo : pending' = Append(pending, echo)
    <3>1. ASSUME NEW t \in Threads, Start(t)
          PROVE  pending' = pending
      BY <3>1 DEF Start, StartWrite, StartAdapt, AdaptRaw, ComputeRead, propagator
    <3>2. ASSUME NEW t \in Threads, Step(t)
          PROVE  pending' = pending \/ \E echo : pending' = Append(pending, echo)
      <4>1. pc[t] \notin {"propagate", "echoing", "update"}
        BY <1>3
      <4>2. \/ WriteReadOld(t) \/ WriteInsert(t) \/ WriteQueueEcho(t) \/ WriteFinish(t)
            \/ AdaptInject(t) \/ ComputeInsert(t)
        BY <3>2, <4>1 DEF Step, AdaptBegin, AdaptEcho, AdaptLookup, AdaptDeliver,
           AdaptPanic, AdaptEnd
      <4>3. QED
        BY <4>2 DEF WriteReadOld, WriteInsert, WriteQueueEcho, WriteFinish, AdaptInject,
           ComputeInsert, EP!AcceptEcho, EP!DropEcho, propagator
    <3>3. CASE UNCHANGED vars
      BY <3>3 DEF vars, propagator
    <3>4. QED  BY <1>3, <3>1, <3>2, <3>3 DEF Next
  <2>2. ASSUME NEW echo, pending' = Append(pending, echo)
        PROVE  Len(pending') = Len(pending) + 1
    BY <2>0, <2>2
  <2>3. QED  BY <1>3, <2>0, <2>1, <2>2
<1>4. QED  BY <1>1, <1>2, <1>3, TypeCorrect, PTL DEF Spec, OnlyPropagateDrains
=============================================================================
