--------------------------- MODULE EchoPropagator ---------------------------
(***************************************************************************)
(* The echo propagator of binetic-core/src/echo.rs: a bounded queue of     *)
(* XOR deltas and the `propagate` round that hands each delta to the       *)
(* registers depending on its source.                                      *)
(*                                                                         *)
(* A lane (BitslicedLane) is the set of its set bits, so XOR is symmetric  *)
(* difference; lanes have one length (xor asserts it, bitslice.rs:242).    *)
(* `propagate` is one call under &mut self, split at its callbacks: other  *)
(* methods wait until it returns, but the registry behind the shared mutex *)
(* may gain entries between two visits.                                    *)
(***************************************************************************)
EXTENDS Integers, Sequences, Functions

CONSTANTS
  Addr,        \* register addresses
  Sector,      \* sector keys
  SectorOf,    \* [Addr -> Sector], SectorKey::new(spine, layer, ring, sector)
  DependentMaps,  \* the get_dependents closures callers pass, [Addr -> SUBSET Addr]
  RegisteredSets, \* the sets of addresses register_lookup may find
  Inserts,     \* bound: the entries other owners of the registry may insert
  Bits,        \* bit positions of a lane
  Layers,      \* target layers
  Policies,    \* the EchoPolicy values a propagator may be created with
  U8,          \* 2^8: `depth` is a u8
  NoEcho,      \* no echo is being visited
  MaxAccepted, \* bound: echoes accepted in a behaviour
  MaxDropped,  \* bound: queue_echo calls refused in a behaviour
  MaxRounds    \* bound: propagate calls in a behaviour

Lane == SUBSET Bits
Xor(x, y) == (x \ y) \cup (y \ x)

ColdAbove == 12

EchoPolicy == [bloom_gated : BOOLEAN, rotation_damped : BOOLEAN,
               xor_cancel : BOOLEAN, max_depth : 0 .. (U8 - 1), max_queue_size : Nat]

\* `id` is not in the code: it numbers the accepted echoes, a damped copy keeping its echo's.
PendingEcho == [delta : Lane, source : Addr, depth : 0 .. (U8 - 1),
                target_layer : Layers, id : Nat]

EchoStats == [propagated : Nat, canceled : Nat, bloom_gated : Nat,
              rotation_damped : Nat, dropped : Nat]

ASSUME EchoConstants ==
  /\ SectorOf \in [Addr -> Sector]
  /\ DependentMaps \subseteq [Addr -> SUBSET Addr]
  /\ RegisteredSets \subseteq SUBSET Addr
  /\ Inserts \subseteq Sector \X Addr
  /\ Layers \subseteq Nat
  /\ U8 \in Nat /\ U8 > 1
  /\ Policies \subseteq EchoPolicy
  /\ NoEcho \notin PendingEcho
  /\ MaxAccepted \in Nat /\ MaxDropped \in Nat /\ MaxRounds \in Nat

VARIABLES
  policy,      \* EchoPolicy, fixed by `new`
  dependents,  \* the caller's get_dependents
  pending,     \* the VecDeque of queued echoes
  processed,   \* propagate's local VecDeque of echoes to re-queue
  phase,       \* "idle", or "propagating" inside a propagate call
  current,     \* the popped echo being visited, or NoEcho
  todo,        \* dependents of `current` not visited yet
  stats,
  registry,    \* BloomRegistry: <<sector, address>> pairs it answers "might contain" for
  store,       \* the registers behind the callbacks
  accepted,    \* number of echoes accepted
  rounds,      \* number of propagate calls begun
  deliveries   \* history: register_update calls, by echo id and dependent

propagator == <<policy, dependents, pending, processed, phase, current, todo, stats>>
vars == <<propagator, registry, store, accepted, rounds, deliveries>>

-----------------------------------------------------------------------------
(* The handlers, on the propagator's own state. *)

\* queue_echo at capacity: the echo is counted and refused.
DropEcho ==
  /\ phase = "idle"
  /\ Len(pending) >= policy.max_queue_size
  /\ stats' = [stats EXCEPT !.dropped = @ + 1]
  /\ UNCHANGED <<policy, dependents, pending, processed, phase, current, todo>>

\* Mutant of AcceptEcho: the capacity test is off by one.
AcceptEchoAtCapacity(delta, source, layer, id) ==
  /\ phase = "idle"
  /\ Len(pending) <= policy.max_queue_size
  /\ pending' = Append(pending, [delta |-> delta, source |-> source, depth |-> 0,
                                 target_layer |-> layer, id |-> id])
  /\ UNCHANGED <<policy, dependents, processed, phase, current, todo, stats>>

\* queue_echo below capacity. inject_structured is queue_echo with its max_depth ignored.
AcceptEcho(delta, source, layer, id) ==
  /\ phase = "idle"
  /\ Len(pending) < policy.max_queue_size
  /\ pending' = Append(pending, [delta |-> delta, source |-> source, depth |-> 0,
                                 target_layer |-> layer, id |-> id])
  /\ UNCHANGED <<policy, dependents, processed, phase, current, todo, stats>>

Clear ==
  /\ phase = "idle"
  /\ pending' = <<>>
  /\ UNCHANGED <<policy, dependents, processed, phase, current, todo, stats>>

ResetStats ==
  /\ phase = "idle"
  /\ stats' = [propagated |-> 0, canceled |-> 0, bloom_gated |-> 0,
               rotation_damped |-> 0, dropped |-> 0]
  /\ UNCHANGED <<policy, dependents, pending, processed, phase, current, todo>>

BeginPropagate ==
  /\ phase = "idle"
  /\ phase' = "propagating"
  /\ processed' = <<>>
  /\ UNCHANGED <<policy, dependents, pending, current, todo, stats>>

\* Mutant of DepthExhausted: an echo at the limit is let through.
DepthExceeded(echo) == policy.max_depth > 0 /\ echo.depth > policy.max_depth

DepthExhausted(echo) == policy.max_depth > 0 /\ echo.depth >= policy.max_depth

PopEcho ==
  /\ phase = "propagating"
  /\ todo = {}
  /\ pending # <<>>
  /\ pending' = Tail(pending)
  /\ IF DepthExhausted(Head(pending))
       THEN /\ current' = NoEcho
            /\ todo' = {}
       ELSE /\ current' = Head(pending)
            /\ todo' = dependents[Head(pending).source]
  /\ UNCHANGED <<policy, dependents, processed, phase, stats>>

\* Which branch of the loop body a dependent takes; `regs` is what register_lookup can see.
GateOpen(d) ==
  policy.bloom_gated => <<SectorOf[d], current.source>> \in registry
Canceled(reg) == policy.xor_cancel /\ Xor(current.delta, reg) = {}

\* Mutant of Damped: the policy flag is not consulted.
DampedAlways == current.target_layer > ColdAbove
Damped == policy.rotation_damped /\ current.target_layer > ColdAbove

Visiting(d) == phase = "propagating" /\ d \in todo
Visited(d) ==
  /\ todo' = todo \ {d}
  /\ UNCHANGED <<policy, dependents, pending, phase, current>>

SkipGated(d) ==
  /\ Visiting(d)
  /\ ~GateOpen(d)
  /\ stats' = [stats EXCEPT !.bloom_gated = @ + 1]
  /\ Visited(d)
  /\ UNCHANGED processed

SkipMissing(d, regs) ==
  /\ Visiting(d)
  /\ GateOpen(d)
  /\ d \notin DOMAIN regs
  /\ Visited(d)
  /\ UNCHANGED <<processed, stats>>

CancelEcho(d, regs) ==
  /\ Visiting(d)
  /\ GateOpen(d)
  /\ d \in DOMAIN regs
  /\ Canceled(regs[d])
  /\ stats' = [stats EXCEPT !.canceled = @ + 1]
  /\ Visited(d)
  /\ UNCHANGED processed

\* Mutants of DampEcho: the depth is not kept in a u8; the copy goes to the deque being drained.
DampEchoWide(d, regs) ==
  /\ Visiting(d)
  /\ GateOpen(d)
  /\ d \in DOMAIN regs
  /\ ~Canceled(regs[d])
  /\ Damped
  /\ stats' = [stats EXCEPT !.rotation_damped = @ + 1]
  /\ processed' = IF Len(pending) < policy.max_queue_size
                    THEN Append(processed, [current EXCEPT !.depth = @ + 1])
                    ELSE processed
  /\ Visited(d)

DampEchoInPlace(d, regs) ==
  /\ Visiting(d)
  /\ GateOpen(d)
  /\ d \in DOMAIN regs
  /\ ~Canceled(regs[d])
  /\ Damped
  /\ stats' = [stats EXCEPT !.rotation_damped = 1]
  /\ pending' = Append(pending, current)
  /\ todo' = todo \ {d}
  /\ UNCHANGED <<policy, dependents, processed, phase, current>>

\* The bound tested is the shrinking `pending`, not `processed`; depth + 1 wraps in a release build.
DampEcho(d, regs) ==
  /\ Visiting(d)
  /\ GateOpen(d)
  /\ d \in DOMAIN regs
  /\ ~Canceled(regs[d])
  /\ Damped
  /\ stats' = [stats EXCEPT !.rotation_damped = @ + 1]
  /\ processed' = IF Len(pending) < policy.max_queue_size
                    THEN Append(processed, [current EXCEPT !.depth = (@ + 1) % U8])
                    ELSE processed
  /\ Visited(d)

\* The same step in a debug build, where the u8 overflow panics and unwinds propagate.
DampPanic(d, regs) ==
  /\ Visiting(d)
  /\ GateOpen(d)
  /\ d \in DOMAIN regs
  /\ ~Canceled(regs[d])
  /\ Damped
  /\ Len(pending) < policy.max_queue_size
  /\ current.depth + 1 = U8
  /\ stats' = [stats EXCEPT !.rotation_damped = @ + 1]
  /\ processed' = <<>>
  /\ todo' = {}
  /\ current' = NoEcho
  /\ phase' = "idle"
  /\ UNCHANGED <<policy, dependents, pending>>

\* Mutant of DeliverEcho: a delivered echo is put back as a damped one is.
DeliverAndRequeue(d, regs) ==
  /\ Visiting(d)
  /\ GateOpen(d)
  /\ d \in DOMAIN regs
  /\ ~Canceled(regs[d])
  /\ ~Damped
  /\ stats' = [stats EXCEPT !.propagated = @ + 1]
  /\ Visited(d)
  /\ processed' = Append(processed, current)

DeliverEcho(d, regs) ==
  /\ Visiting(d)
  /\ GateOpen(d)
  /\ d \in DOMAIN regs
  /\ ~Canceled(regs[d])
  /\ ~Damped
  /\ stats' = [stats EXCEPT !.propagated = @ + 1]
  /\ Visited(d)
  /\ UNCHANGED processed

EndPropagate ==
  /\ phase = "propagating"
  /\ todo = {}
  /\ pending = <<>>
  /\ pending' = processed
  /\ processed' = <<>>
  /\ current' = NoEcho
  /\ phase' = "idle"
  /\ UNCHANGED <<policy, dependents, todo, stats>>

-----------------------------------------------------------------------------
(* The propagator with its callers, the shared registry and a register     *)
(* store whose register_update is Register::update_with_delta.             *)

environment == <<registry, store, accepted, rounds, deliveries>>

InitPropagator ==
  /\ policy \in Policies
  /\ dependents \in DependentMaps
  /\ pending = <<>>
  /\ processed = <<>>
  /\ phase = "idle"
  /\ current = NoEcho
  /\ todo = {}
  /\ stats = [propagated |-> 0, canceled |-> 0, bloom_gated |-> 0,
              rotation_damped |-> 0, dropped |-> 0]

Init ==
  /\ InitPropagator
  /\ registry = {}
  /\ \E R \in RegisteredSets : store \in [R -> Lane]
  /\ accepted = 0
  /\ rounds = 0
  /\ deliveries = [x \in (1 .. MaxAccepted) \X Addr |-> 0]

QueueEcho(delta, source, layer) ==
  \/ /\ stats.dropped < MaxDropped
     /\ DropEcho
     /\ UNCHANGED environment
  \/ /\ accepted < MaxAccepted
     /\ AcceptEcho(delta, source, layer, accepted + 1)
     /\ accepted' = accepted + 1
     /\ UNCHANGED <<registry, store, rounds, deliveries>>

RegistryInsert(entry) ==
  /\ registry' = registry \cup {entry}
  /\ UNCHANGED <<propagator, store, accepted, rounds, deliveries>>

StartRound ==
  /\ rounds < MaxRounds
  /\ BeginPropagate
  /\ rounds' = rounds + 1
  /\ UNCHANGED <<registry, store, accepted, deliveries>>

Deliver(d) ==
  /\ DeliverEcho(d, store)
  /\ store' = [store EXCEPT ![d] = Xor(@, current.delta)]
  /\ deliveries' = [deliveries EXCEPT ![<<current.id, d>>] = @ + 1]
  /\ UNCHANGED <<registry, accepted, rounds>>

Visit(d) ==
  \/ SkipGated(d) /\ UNCHANGED environment
  \/ SkipMissing(d, store) /\ UNCHANGED environment
  \/ CancelEcho(d, store) /\ UNCHANGED environment
  \/ DampEcho(d, store) /\ UNCHANGED environment
  \/ DampPanic(d, store) /\ UNCHANGED environment
  \/ Deliver(d)

\* One step of the loop inside propagate.
LoopStep ==
  \/ PopEcho /\ UNCHANGED environment
  \/ \E d \in todo : Visit(d)
  \/ EndPropagate /\ UNCHANGED environment

Next ==
  \/ \E delta \in Lane, a \in Addr, layer \in Layers : QueueEcho(delta, a, layer)
  \/ Clear /\ UNCHANGED environment
  \/ ResetStats /\ UNCHANGED environment
  \/ \E entry \in Inserts : RegistryInsert(entry)
  \/ StartRound
  \/ LoopStep

Spec == Init /\ [][Next]_vars

\* A propagate call runs to its end once begun; nobody owes the propagator a call.
FairSpec == Spec /\ WF_vars(LoopStep)

-----------------------------------------------------------------------------
(* Properties. *)

Outstanding == Range(pending) \cup Range(processed)
                 \cup (IF todo = {} THEN {} ELSE {current})

\* Types: the fields of EchoPropagator, propagate's locals and the history.
TypeOK ==
  /\ policy \in Policies
  /\ dependents \in DependentMaps
  /\ pending \in Seq(PendingEcho)
  /\ processed \in Seq(PendingEcho)
  /\ phase \in {"idle", "propagating"}
  /\ current \in PendingEcho \cup {NoEcho}
  /\ todo \in SUBSET Addr
  /\ (todo # {} => phase = "propagating" /\ current # NoEcho)
  /\ stats \in EchoStats
  /\ registry \subseteq Sector \X Addr
  /\ DOMAIN store \subseteq Addr /\ store \in [DOMAIN store -> Lane]
  /\ accepted \in 0 .. MaxAccepted
  /\ rounds \in 0 .. MaxRounds
  /\ deliveries \in [(1 .. MaxAccepted) \X Addr -> Nat]

\* With a depth limit (echo.rs:154) an echo damped again and again is discarded before
\* its u8 depth can pass the limit, so `depth + 1` (echo.rs:199) never overflows: no
\* outstanding echo is deeper than max_depth, and one being visited is shallower.
DepthWithinLimit ==
  policy.max_depth > 0 =>
    /\ \A echo \in Outstanding : echo.depth <= policy.max_depth
    /\ todo # {} => current.depth < policy.max_depth

\* Only rotation damping puts an echo back (echo.rs:192-204): an echo that outlives a
\* round is for a layer above 12 under a damping policy. A hot echo is dealt with in
\* the first round after it was queued.
OnlyColdRequeued ==
  \A echo \in Range(processed) \cup {e \in Range(pending) : e.depth > 0} :
    policy.rotation_damped /\ echo.target_layer > ColdAbove

\* The bound test on re-queueing looks at the wrong deque (echo.rs:195), and still the
\* queue keeps within max_queue_size as long as no register has two dependents, which
\* is so for the closures of the fabric (fabric.rs:674-680).
AtMostOneDependent == \A a \in Addr : \A d, e \in dependents[a] : d = e
QueueBoundedForChains ==
  AtMostOneDependent =>
    Len(pending) + Len(processed) <= policy.max_queue_size

\* Why: the echo being visited holds the place its copy may take. Inductive with TypeOK.
QueueInv ==
  /\ phase = "idle" => processed = <<>> /\ todo = {}
  /\ todo # {} => \E a \in Addr : todo \subseteq dependents[a]
  /\ AtMostOneDependent =>
       Len(pending) + Len(processed) + (IF todo = {} THEN 0 ELSE 1) <= policy.max_queue_size

\* An accepted echo changes a dependent at most once, whatever was re-queued, cleared
\* or inserted into the registry meanwhile: XOR-merging a delta twice would undo it.
AtMostOnceDelivery ==
  \A id \in 1 .. MaxAccepted, d \in Addr : deliveries[<<id, d>>] <= 1

\* Why: only an undamped echo is delivered, no other entry of the queue carries its id,
\* and its deliveries are still to come. Inductive with TypeOK and OnlyColdRequeued.
Deliverable(echo) == ~(policy.rotation_damped /\ echo.target_layer > ColdAbove)
Undelivered(id, S) == \A d \in S : deliveries[<<id, d>>] = 0
DeliveryInv ==
  /\ AtMostOnceDelivery
  /\ \A echo \in Range(pending) \cup Range(processed) : echo.id \in 1 .. accepted
  /\ todo # {} => current.id \in 1 .. accepted
  /\ \A id \in (accepted + 1) .. MaxAccepted : Undelivered(id, Addr)
  /\ \A i, j \in 1 .. Len(pending) :
       i # j /\ Deliverable(pending[i]) => pending[i].id # pending[j].id
  /\ \A i \in 1 .. Len(pending) :
       Deliverable(pending[i]) => Undelivered(pending[i].id, Addr)
  /\ (todo # {} /\ Deliverable(current)) =>
       /\ Undelivered(current.id, todo)
       /\ \A i \in 1 .. Len(pending) : pending[i].id # current.id

\* The loop `while let Some(echo) = pending.pop_front()` ends: what it re-queues goes to
\* `processed`, never back to the deque it drains.
PropagateTerminates == phase = "propagating" ~> phase = "idle"

\* echo.rs:35, "Maximum echo queue size before dropping": the queue never holds more.
QueueWithinLimit == Len(pending) <= policy.max_queue_size

\* echo.rs:324-376, test_echo_propagation_basic, asserts of the default policy that a hot
\* echo, once visited and not canceled, has been applied to the source's registered
\* dependent (`stats.propagated` is 1, echo.rs:366).
DependentUpdated ==
  (/\ phase = "propagating" /\ current # NoEcho /\ todo = {}
   /\ current.target_layer <= ColdAbove
   /\ stats.canceled = 0)
    => \A d \in dependents[current.source] \cap DOMAIN store : deliveries[<<current.id, d>>] = 1
=============================================================================
