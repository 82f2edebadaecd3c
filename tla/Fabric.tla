------------------------------- MODULE Fabric -------------------------------
(***************************************************************************)
(* The register store of binetic-core/src/fabric.rs and the calls that     *)
(* change it, run by several threads through `&self`.                      *)
(*                                                                         *)
(* Every field of Fabric is behind a lock of its own and a call takes them *)
(* one after another, so a call is split where it lets a lock go. Only     *)
(* `propagate` runs under a lock (the echo propagator's) while it takes    *)
(* others; the rest are held within one action and need no variable. The   *)
(* locks are not reentrant. A register is its payload. FabricStats, the    *)
(* access log and record_access change nothing a call depends on and are   *)
(* left out, as are the echo ids of EchoPropagator.                        *)
(***************************************************************************)
EXTENDS Integers, Sequences, Functions

CONSTANTS
  Threads,
  Addr, Sector, SectorOf, \* as in EchoPropagator
  LayerOf,        \* [Addr -> Layers], RegisterAddress::layer
  Child,          \* addr.child(1), for the addresses whose shard is below 0xFFFE
  PopulatedSets,  \* the sets of addresses written before the behaviour starts
  ComputeOps,     \* the <<left, right, result>> addresses of `Add` operations
  Payloads,       \* the payloads callers write
  Deltas,         \* the adaptation deltas callers inject
  Bits, Layers, Policies, U8, NoEcho, \* as in EchoPropagator
  NoLane,         \* None
  Free,           \* nobody holds a lock
  NoCall,         \* a thread outside the fabric
  MaxCalls        \* bound: calls in a behaviour

VARIABLES
  registers,      \* HashMap<RegisterAddress, Register>
  bloom,          \* the fabric's bloom registry, <<sector, address>> pairs
  policy, dependents, pending, processed, phase, current, todo, stats,
                  \* the echo propagator, as in EchoPropagator
  registry,       \* the propagator's own bloom registry, another object (fabric.rs:256-261)
  echoLock,       \* the thread holding the echo propagator's lock
  pc,             \* where each thread stands in its call
  call,           \* the call each thread is running
  old,            \* `delta` of `write`: the change it will queue, or NoLane
  calls,          \* number of calls begun
  alone           \* history: no other call on this one's registers since it read them

EP == INSTANCE EchoPropagator WITH
        DependentMaps <- {[a \in Addr |-> {}]}, RegisteredSets <- {}, Inserts <- {},
        MaxAccepted <- 0, MaxDropped <- 0, MaxRounds <- 0,
        store <- registers, accepted <- 0, rounds <- 0, deliveries <- <<>>

propagator == <<policy, dependents, pending, processed, phase, current, todo, stats>>
vars == <<registers, bloom, propagator, registry, echoLock, pc, call, old, calls, alone>>

Lane == SUBSET Bits
Call == [op : {"write", "adapt", "deliver", "compute"}, target : Addr,
         operands : Addr \X Addr, delta : Lane, payload : Lane]

ASSUME FabricConstants ==
  /\ SectorOf \in [Addr -> Sector]
  /\ LayerOf \in [Addr -> Layers]
  /\ Layers \subseteq Nat
  /\ DOMAIN Child \subseteq Addr /\ Child \in [DOMAIN Child -> Addr]
  /\ PopulatedSets \subseteq SUBSET Addr
  /\ ComputeOps \subseteq Addr \X Addr \X Addr
  /\ Payloads \subseteq Lane /\ Deltas \subseteq Lane
  /\ U8 \in Nat /\ U8 > 1
  /\ Policies \subseteq EP!EchoPolicy
  /\ NoEcho \notin EP!PendingEcho
  /\ \A x \in Lane : x # NoLane
  /\ Free \notin Threads
  /\ NoCall \notin Call
  /\ MaxCalls \in Nat

\* The get_dependents closure of inject_adapt.
ChildDependents == [a \in Addr |-> IF a \in DOMAIN Child THEN {Child[a]} ELSE {}]

-----------------------------------------------------------------------------
(* Calls on the same registers. *)

\* The stretch of a call between reading registers and inserting what it made of them.
InWindow(t) == pc[t] \in {"read_old", "insert", "compute_insert"}
Footprint(c) == {c.target, c.operands[1], c.operands[2]}
Conflicts(t, addresses) == InWindow(t) /\ Footprint(call[t]) \cap addresses # {}

\* Thread t enters its window with call c; the history notes who overlaps.
Enter(t, c, label) ==
  /\ pc' = [pc EXCEPT ![t] = label]
  /\ call' = [call EXCEPT ![t] = c]
  /\ alone' = [u \in Threads |->
                 IF u = t THEN \A v \in Threads \ {t} : ~Conflicts(v, Footprint(c))
                          ELSE alone[u] /\ ~Conflicts(u, Footprint(c))]

Goto(t, label) == pc' = [pc EXCEPT ![t] = label]

Return(t) ==
  /\ pc' = [pc EXCEPT ![t] = "idle"]
  /\ call' = [call EXCEPT ![t] = NoCall]

Begin(t) ==
  /\ pc[t] = "idle"
  /\ calls < MaxCalls
  /\ calls' = calls + 1

-----------------------------------------------------------------------------
(* write: called from outside, by inject_adapt and by its callback. *)

StartWrite(t, a, payload) ==
  /\ Begin(t)
  /\ Enter(t, [op |-> "write", target |-> a, operands |-> <<a, a>>,
               delta |-> {}, payload |-> payload], "read_old")
  /\ UNCHANGED <<registers, bloom, propagator, registry, echoLock, old>>

WriteReadOld(t) ==
  /\ pc[t] = "read_old"
  /\ old' = [old EXCEPT ![t] = IF call[t].target \in DOMAIN registers
                                 THEN EP!Xor(registers[call[t].target], call[t].payload)
                                 ELSE NoLane]
  /\ Goto(t, "insert")
  /\ UNCHANGED <<registers, bloom, propagator, registry, echoLock, call, calls, alone>>

\* Mutant of WriteInsert: an echo is queued for a new register too.
WriteInsertAlwaysQueues(t) ==
  /\ pc[t] = "insert"
  /\ registers' = [a \in DOMAIN registers \cup {call[t].target} |->
                     IF a = call[t].target THEN call[t].payload ELSE registers[a]]
  /\ alone' = [alone EXCEPT ![t] = TRUE]
  /\ Goto(t, "queue")
  /\ UNCHANGED <<bloom, propagator, registry, echoLock, call, old, calls>>

WriteInsert(t) ==
  /\ pc[t] = "insert"
  /\ registers' = [a \in DOMAIN registers \cup {call[t].target} |->
                     IF a = call[t].target THEN call[t].payload ELSE registers[a]]
  /\ alone' = [alone EXCEPT ![t] = TRUE]
  /\ Goto(t, IF old[t] = NoLane THEN "finish" ELSE "queue")
  /\ UNCHANGED <<bloom, propagator, registry, echoLock, call, old, calls>>

\* A full queue drops the echo and `write` goes on.
WriteQueueEcho(t) ==
  /\ pc[t] = "queue"
  /\ echoLock = Free
  /\ \/ EP!AcceptEcho(old[t], call[t].target, LayerOf[call[t].target], 0)
     \/ EP!DropEcho
  /\ old' = [old EXCEPT ![t] = NoLane]
  /\ Goto(t, "finish")
  /\ UNCHANGED <<registers, bloom, registry, echoLock, call, calls, alone>>

\* Mutants of WriteFinish: the propagator's registry is written to as well; none is.
WriteFinishShared(t) ==
  /\ pc[t] = "finish"
  /\ bloom' = bloom \cup {<<SectorOf[call[t].target], call[t].target>>}
  /\ registry' = registry \cup {<<SectorOf[call[t].target], call[t].target>>}
  /\ IF call[t].op = "adapt"
       THEN Goto(t, "inject") /\ UNCHANGED call
       ELSE Return(t)
  /\ UNCHANGED <<registers, propagator, echoLock, old, calls, alone>>

WriteFinishUnlisted(t) ==
  /\ pc[t] = "finish"
  /\ IF call[t].op = "adapt"
       THEN Goto(t, "inject") /\ UNCHANGED call
       ELSE Return(t)
  /\ UNCHANGED <<registers, bloom, propagator, registry, echoLock, old, calls, alone>>

\* The bloom insertion, the counters, and the return to the caller. The callback's write
\* never comes this far: its register exists, so it waits for the lock its thread holds.
WriteFinish(t) ==
  /\ pc[t] = "finish"
  /\ bloom' = bloom \cup {<<SectorOf[call[t].target], call[t].target>>}
  /\ IF call[t].op = "adapt"
       THEN Goto(t, "inject") /\ UNCHANGED call
       ELSE Return(t)
  /\ UNCHANGED <<registers, propagator, registry, echoLock, old, calls, alone>>

-----------------------------------------------------------------------------
(* inject_adapt and inject_adapt_raw. *)

\* Mutant of Adapted: xor_merge and update_with_delta on one copy cancel out.
AdaptedTwice(payload, delta) == EP!Xor(EP!Xor(payload, delta), delta)

\* xor_merge goes to a copy nobody reads (fabric.rs:645), update_with_delta is what counts.
Adapted(payload, delta) == EP!Xor(payload, delta)

\* The snapshot; a missing register ends the call with Err before anything changed.
StartAdapt(t, a, delta) ==
  /\ Begin(t)
  /\ a \in DOMAIN registers
  /\ Enter(t, [op |-> "adapt", target |-> a, operands |-> <<a, a>>,
               delta |-> delta, payload |-> Adapted(registers[a], delta)], "read_old")
  /\ UNCHANGED <<registers, bloom, propagator, registry, echoLock, old>>

\* inject_structured; a full queue ends the call with Err.
AdaptInject(t) ==
  /\ pc[t] = "inject"
  /\ echoLock = Free
  /\ \/ EP!AcceptEcho(call[t].delta, call[t].target, LayerOf[call[t].target], 0)
        /\ Goto(t, "propagate") /\ UNCHANGED call
     \/ EP!DropEcho /\ Return(t)
  /\ UNCHANGED <<registers, bloom, registry, echoLock, old, calls, alone>>

\* Mutant of AdaptBegin: the lock is let go before propagate runs.
AdaptBeginUnlocked(t) ==
  /\ pc[t] = "propagate"
  /\ echoLock = Free
  /\ EP!BeginPropagate
  /\ Goto(t, "echoing")
  /\ UNCHANGED <<registers, bloom, registry, echoLock, call, old, calls, alone>>

AdaptBegin(t) ==
  /\ pc[t] = "propagate"
  /\ echoLock = Free
  /\ echoLock' = t
  /\ EP!BeginPropagate
  /\ Goto(t, "echoing")
  /\ UNCHANGED <<registers, bloom, registry, call, old, calls, alone>>

\* A visit that does not call register_update.
Skip(d) ==
  \/ EP!SkipGated(d)
  \/ EP!SkipMissing(d, registers)
  \/ EP!CancelEcho(d, registers)
  \/ EP!DampEcho(d, registers)

AdaptEcho(t) ==
  /\ pc[t] = "echoing"
  /\ EP!PopEcho \/ \E d \in todo : Skip(d)
  /\ UNCHANGED <<registers, bloom, registry, echoLock, pc, call, old, calls, alone>>

Delivery(d, delta, payload) ==
  [op |-> "deliver", target |-> d, operands |-> <<d, d>>, delta |-> delta, payload |-> payload]

\* register_lookup reads the dependent under a lock of its own and lets it go; what is
\* found there opens the way to register_update, and is not what that call will read.
AdaptLookup(t) ==
  /\ pc[t] = "echoing"
  /\ \E d \in todo :
       /\ EP!GateOpen(d) /\ d \in DOMAIN registers
       /\ ~EP!Canceled(registers[d]) /\ ~EP!Damped
       /\ call' = [call EXCEPT ![t] = Delivery(d, current.delta, {})]
  /\ Goto(t, "update")
  /\ UNCHANGED <<registers, bloom, propagator, registry, echoLock, old, calls, alone>>

\* register_update: the dependent is read again, and written back with the delta merged.
\* It is still there, for nothing takes a register out of the store.
AdaptDeliver(t) ==
  /\ pc[t] = "update"
  /\ LET d == call[t].target
         delta == call[t].delta
     IN /\ d \in DOMAIN registers
        /\ Enter(t, Delivery(d, delta, Adapted(registers[d], delta)), "read_old")
  /\ UNCHANGED <<registers, bloom, propagator, registry, echoLock, old, calls>>

\* A panic unwinds the call and lets the lock go.
AdaptPanic(t) ==
  /\ pc[t] = "echoing"
  /\ \E d \in todo : EP!DampPanic(d, registers)
  /\ echoLock' = Free
  /\ Return(t)
  /\ UNCHANGED <<registers, bloom, registry, old, calls, alone>>

\* Mutant of AdaptEnd: the guard outlives the call.
AdaptEndLocked(t) ==
  /\ pc[t] = "echoing"
  /\ EP!EndPropagate
  /\ Return(t)
  /\ UNCHANGED <<registers, bloom, registry, echoLock, old, calls, alone>>

AdaptEnd(t) ==
  /\ pc[t] = "echoing"
  /\ EP!EndPropagate
  /\ echoLock' = Free
  /\ Return(t)
  /\ UNCHANGED <<registers, bloom, registry, old, calls, alone>>

\* One critical section from read to insert.
AdaptRaw(t, a, delta) ==
  /\ Begin(t)
  /\ a \in DOMAIN registers
  /\ registers' = [registers EXCEPT ![a] = EP!Xor(@, delta)]
  /\ alone' = [u \in Threads |-> alone[u] /\ ~Conflicts(u, {a})]
  /\ UNCHANGED <<bloom, propagator, registry, echoLock, pc, call, old>>

-----------------------------------------------------------------------------
(* compute, with the native backend's Add (backend.rs:430-443). *)

\* With an operand missing the backend fails and nothing is written.
ComputeRead(t, op) ==
  /\ Begin(t)
  /\ {op[1], op[2]} \subseteq DOMAIN registers
  /\ Enter(t, [op |-> "compute", target |-> op[3], operands |-> <<op[1], op[2]>>, delta |-> {},
               payload |-> EP!Xor(registers[op[1]], registers[op[2]])], "compute_insert")
  /\ UNCHANGED <<registers, bloom, propagator, registry, echoLock, old>>

\* The result is inserted without an echo and without a bloom entry.
ComputeInsert(t) ==
  /\ pc[t] = "compute_insert"
  /\ registers' = [a \in DOMAIN registers \cup {call[t].target} |->
                     IF a = call[t].target THEN call[t].payload ELSE registers[a]]
  /\ alone' = [alone EXCEPT ![t] = TRUE]
  /\ Return(t)
  /\ UNCHANGED <<bloom, propagator, registry, echoLock, old, calls>>

-----------------------------------------------------------------------------
Init ==
  /\ \E R \in PopulatedSets :
       /\ registers \in [R -> Lane]
       /\ bloom = {<<SectorOf[a], a>> : a \in R}
  /\ policy \in Policies
  /\ dependents = ChildDependents
  /\ pending = <<>>
  /\ processed = <<>>
  /\ phase = "idle"
  /\ current = NoEcho
  /\ todo = {}
  /\ stats = [propagated |-> 0, canceled |-> 0, bloom_gated |-> 0,
              rotation_damped |-> 0, dropped |-> 0]
  /\ registry = {}
  /\ echoLock = Free
  /\ pc = [t \in Threads |-> "idle"]
  /\ call = [t \in Threads |-> NoCall]
  /\ old = [t \in Threads |-> NoLane]
  /\ calls = 0
  /\ alone = [t \in Threads |-> TRUE]

Start(t) ==
  \/ \E a \in Addr, payload \in Payloads : StartWrite(t, a, payload)
  \/ \E a \in Addr, delta \in Deltas : StartAdapt(t, a, delta) \/ AdaptRaw(t, a, delta)
  \/ \E op \in ComputeOps : ComputeRead(t, op)

\* The steps of a call once begun.
Step(t) ==
  \/ WriteReadOld(t) \/ WriteInsert(t) \/ WriteQueueEcho(t) \/ WriteFinish(t)
  \/ AdaptInject(t) \/ AdaptBegin(t) \/ AdaptEcho(t)
  \/ AdaptLookup(t) \/ AdaptDeliver(t) \/ AdaptPanic(t) \/ AdaptEnd(t)
  \/ ComputeInsert(t)

Next == \E t \in Threads : Start(t) \/ Step(t)

Spec == Init /\ [][Next]_vars

\* The scheduler runs every thread and the locks are eventually fair, so a step that is
\* possible again and again is taken. Nobody has to begin a call.
FairSpec == Spec /\ \A t \in Threads : SF_vars(Step(t))

-----------------------------------------------------------------------------
(* Properties. *)

Labels == {"idle", "read_old", "insert", "queue", "finish", "inject", "propagate", "echoing",
           "update", "compute_insert"}

\* Types of the store, the propagator and the threads.
TypeOK ==
  /\ DOMAIN registers \subseteq Addr /\ registers \in [DOMAIN registers -> Lane]
  /\ bloom \subseteq Sector \X Addr
  /\ policy \in Policies
  /\ dependents = ChildDependents
  /\ pending \in Seq(EP!PendingEcho)
  /\ processed \in Seq(EP!PendingEcho)
  /\ phase \in {"idle", "propagating"}
  /\ current \in EP!PendingEcho \cup {NoEcho}
  /\ todo \subseteq Addr
  /\ (todo # {} => current # NoEcho)
  /\ stats \in EP!EchoStats
  /\ registry \subseteq Sector \X Addr
  /\ echoLock \in Threads \cup {Free}
  /\ pc \in [Threads -> Labels]
  /\ call \in [Threads -> Call \cup {NoCall}]
  /\ \A t \in Threads : pc[t] # "idle" => call[t] # NoCall
  /\ old \in [Threads -> {NoLane} \cup Lane]
  /\ \A t \in Threads : pc[t] = "queue" => old[t] # NoLane
  /\ calls \in 0 .. MaxCalls
  /\ alone \in [Threads -> BOOLEAN]

\* What call k inserts when it reads and writes the store as it is now.
Outcome(k) ==
  CASE k.op = "write" -> k.payload
    [] k.op \in {"adapt", "deliver"} -> EP!Xor(registers[k.target], k.delta)
    [] k.op = "compute" -> EP!Xor(registers[k.operands[1]], registers[k.operands[2]])

\* The change the register of t's call is about to see.
Change(t) ==
  IF call[t].target \in DOMAIN registers
    THEN EP!Xor(registers[call[t].target], call[t].payload)
    ELSE NoLane

\* ARCHITECTURE.md:2108, "Concurrent transactions on disjoint address ranges don't
\* interfere": unless another call is between reading and writing the same registers, a
\* call inserts its operation's result on the store as it is, though it read the store
\* under an earlier lock, and the echo it queues is the change the register sees.
NoInterference ==
  \A t \in Threads :
    alone[t] /\ pc[t] \in {"insert", "compute_insert"} =>
      /\ call[t].payload = Outcome(call[t])
      /\ pc[t] = "insert" => old[t] = Change(t)

\* Why: whoever shares registers with an isolated call is not in its window, and what the
\* call has read is still there. Inductive with TypeOK.
Ready(t) ==
  InWindow(t) =>
    /\ call[t].op = "compute" <=> pc[t] = "compute_insert"
    /\ call[t].op \in {"adapt", "deliver"} => call[t].target \in DOMAIN registers
    /\ call[t].op = "compute" =>
         {call[t].operands[1], call[t].operands[2]} \subseteq DOMAIN registers
Apart(t) ==
  alone[t] /\ InWindow(t) =>
    \A u \in Threads \ {t} : ~Conflicts(u, Footprint(call[t]))
Fresh(t) ==
  alone[t] /\ InWindow(t) =>
    /\ call[t].payload = Outcome(call[t])
    /\ pc[t] = "insert" => old[t] = Change(t)
IsolationInv == \A t \in Threads : Ready(t) /\ Apart(t) /\ Fresh(t)

\* `register_update` writes back through `write`, which takes the lock inject_adapt holds
\* (fabric.rs:666-673). Bloom gating against a registry nobody fills is all that keeps a
\* thread from waiting for itself.
SelfDeadlock(t) == echoLock = t /\ pc[t] = "queue"
SelfDeadlockOnlyUngated ==
  policy.bloom_gated => \A t \in Threads : ~SelfDeadlock(t)

\* Why: behind a closed gate the holder of the lock never leaves the loop of propagate.
\* Inductive with TypeOK.
GatedInv ==
  /\ registry = {}
  /\ policy.bloom_gated => \A t \in Threads : echoLock = t => pc[t] = "echoing"

\* fabric.rs:492-501: whatever was written can be found through the fabric's bloom
\* filters, except in the moment before its write returns; compute's results cannot.
ComputeTargets == {op[3] : op \in ComputeOps}
BloomCoversWrites ==
  \A a \in DOMAIN registers \ ComputeTargets :
    \/ <<SectorOf[a], a>> \in bloom
    \/ \E t \in Threads : call[t] # NoCall /\ call[t].target = a
         /\ pc[t] \in {"queue", "finish"}

\* Why: what compute is about to insert is one of its results. Inductive with TypeOK.
ListedInv ==
  /\ BloomCoversWrites
  /\ \A t \in Threads : pc[t] = "compute_insert" => call[t].target \in ComputeTargets

\* Only a propagate call makes room in a full echo queue, and only an inject_adapt whose
\* echo found room reaches one (fabric.rs:662): once the queue is full and no such call
\* is left, it stays full.
OnlyPropagateDrains ==
  [][(/\ Len(pending) >= policy.max_queue_size
      /\ \A t \in Threads : pc[t] # "propagate" /\ echoLock # t)
       => Len(pending') >= policy.max_queue_size]_vars

\* Why: the loop of propagate runs under the lock. Inductive with TypeOK.
HolderInv == \A t \in Threads : pc[t] \in {"echoing", "update"} => echoLock = t

\* Under the default gated policy every call returns: propagate drains its queue without
\* waiting for its own lock, and lets the others have it.
CallsReturn ==
  \A t \in Threads : (policy.bloom_gated /\ pc[t] # "idle") ~> pc[t] = "idle"

\* ARCHITECTURE.md:2087, "The XOR fold is atomic -- either the delta merges or it doesn't.
\* There is no partial state.": an inject_adapt that has changed its register cannot be
\* refused any more.
AdaptAllOrNothing ==
  \A t \in Threads :
    pc[t] = "inject" /\ call[t].delta # {} => Len(pending) < policy.max_queue_size

\* The same line, for two adaptations of one register: what inject_adapt inserts is the
\* register's present value with the delta merged, so that neither delta is lost.
FoldIsAtomic ==
  \A t \in Threads :
    pc[t] = "insert" /\ call[t].op = "adapt" => call[t].payload = Outcome(call[t])
=============================================================================
