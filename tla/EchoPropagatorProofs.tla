------------------------ MODULE EchoPropagatorProofs ------------------------
(* What the propagator of EchoPropagator does for every queue size, policy,  *)
(* dependency map and number of rounds.                                      *)
EXTENDS EchoPropagator, SequenceTheorems, TLAPS

\* What appending adds to a sequence's elements.
LEMMA RangeAppend ==
  ASSUME NEW S, NEW s \in Seq(S), NEW e \in S
  PROVE  Range(Append(s, e)) = Range(s) \cup {e}
<1>1. /\ DOMAIN Append(s, e) = 1 .. Len(s) + 1
      /\ DOMAIN s = 1 .. Len(s)
      /\ \A i \in 1 .. Len(s) : Append(s, e)[i] = s[i]
      /\ Append(s, e)[Len(s) + 1] = e
      /\ Len(s) \in Nat
  BY AppendProperties
<1>2. QED  BY <1>1 DEF Range

\* Popping removes no element but the head.
LEMMA RangeTail ==
  ASSUME NEW S, NEW s \in Seq(S), s # <<>>
  PROVE  /\ Head(s) \in Range(s)
         /\ Range(Tail(s)) \subseteq Range(s)
         /\ Range(s) \subseteq S
<1>1. /\ DOMAIN Tail(s) = 1 .. Len(s) - 1
      /\ DOMAIN s = 1 .. Len(s)
      /\ Head(s) = s[1]
      /\ Len(s) \in Nat \ {0}
      /\ \A i \in 1 .. Len(s) - 1 : Tail(s)[i] = s[i + 1]
      /\ \A i \in 1 .. Len(s) : s[i] \in S
  BY HeadTailProperties, ElementOfSeq, LenProperties, EmptySeq
<1>2. QED  BY <1>1 DEF Range

\* An empty queue holds nothing.
LEMMA RangeEmpty == Range(<<>>) = {}
  BY DEF Range

\* A wrapped byte is a byte.
LEMMA WrapIsByte == \A n \in Nat : n % U8 \in 0 .. (U8 - 1)
  BY EchoConstants

\* A number that fits in a byte does not wrap.
LEMMA ByteFits == \A n \in 0 .. (U8 - 1) : n % U8 = n
  BY EchoConstants

\* A damped copy is an echo like the one it was made from.
LEMMA CopyType ==
  ASSUME NEW echo \in PendingEcho
  PROVE  LET copy == [echo EXCEPT !.depth = (@ + 1) % U8]
         IN  copy \in PendingEcho /\ copy.id = echo.id /\ copy.target_layer = echo.target_layer
<1>1. (echo.depth + 1) % U8 \in 0 .. (U8 - 1)
  BY WrapIsByte, EchoConstants DEF PendingEcho
<1>2. QED  BY <1>1 DEF PendingEcho

\* Counting one more event leaves well-typed counters.
LEMMA CountersType ==
  ASSUME NEW st \in EchoStats
  PROVE  /\ [st EXCEPT !.propagated = @ + 1] \in EchoStats
         /\ [st EXCEPT !.canceled = @ + 1] \in EchoStats
         /\ [st EXCEPT !.bloom_gated = @ + 1] \in EchoStats
         /\ [st EXCEPT !.rotation_damped = @ + 1] \in EchoStats
         /\ [st EXCEPT !.dropped = @ + 1] \in EchoStats
  BY DEF EchoStats

\* The same for a history kept as a function.
LEMMA CountOne ==
  ASSUME NEW D, NEW f \in [D -> Nat], NEW x
  PROVE  [f EXCEPT ![x] = @ + 1] \in [D -> Nat]
<1> DEFINE g == [f EXCEPT ![x] = @ + 1]
<1>1. g = [y \in D |-> IF y = x THEN f[x] + 1 ELSE f[y]]
  OBVIOUS
<1>2. \A y \in D : g[y] \in Nat
  BY <1>1
<1>3. QED  BY <1>1, <1>2

-----------------------------------------------------------------------------
(* Type correctness. *)

\* The propagator, its caller's store and the history keep their types; the u8 depth of a
\* damped echo stays a byte.
THEOREM TypeCorrect == Spec => []TypeOK
<1> USE DEF TypeOK
<1>1. Init => TypeOK
  <2> SUFFICES ASSUME Init PROVE TypeOK
    OBVIOUS
  <2>1. PICK R \in RegisteredSets : store \in [R -> Lane]
    BY DEF Init
  <2>2. DOMAIN store = R /\ R \subseteq Addr
    BY <2>1, EchoConstants
  <2>3. stats \in EchoStats
    BY DEF Init, InitPropagator, EchoStats
  <2>4. /\ accepted \in 0 .. MaxAccepted
        /\ rounds \in 0 .. MaxRounds
        /\ deliveries \in [(1 .. MaxAccepted) \X Addr -> Nat]
    BY EchoConstants DEF Init
  <2>5. QED
    BY <2>1, <2>2, <2>3, <2>4, EmptySeq DEF Init, InitPropagator
<1>2. TypeOK /\ [Next]_vars => TypeOK'
  <2> SUFFICES ASSUME TypeOK, [Next]_vars PROVE TypeOK'
    OBVIOUS
  <2>1. ASSUME NEW delta \in Lane, NEW a \in Addr, NEW layer \in Layers,
               QueueEcho(delta, a, layer)
        PROVE  TypeOK'
    <3>1. CASE DropEcho /\ UNCHANGED environment
      BY <3>1, CountersType DEF DropEcho, environment
    <3>2. CASE /\ accepted < MaxAccepted
               /\ AcceptEcho(delta, a, layer, accepted + 1)
               /\ accepted' = accepted + 1
               /\ UNCHANGED <<registry, store, rounds, deliveries>>
      <4> DEFINE echo == [delta |-> delta, source |-> a, depth |-> 0,
                          target_layer |-> layer, id |-> accepted + 1]
      <4>1. echo \in PendingEcho
        BY EchoConstants DEF PendingEcho
      <4>2. pending' = Append(pending, echo) /\ pending' \in Seq(PendingEcho)
        BY <3>2, <4>1, AppendProperties DEF AcceptEcho
      <4>3. accepted' \in 0 .. MaxAccepted
        BY <3>2, EchoConstants
      <4>4. QED  BY <3>2, <4>2, <4>3 DEF AcceptEcho
    <3>3. QED  BY <2>1, <3>1, <3>2 DEF QueueEcho
  <2>2. CASE Clear /\ UNCHANGED environment
    BY <2>2, EmptySeq DEF Clear, environment
  <2>3. CASE ResetStats /\ UNCHANGED environment
    BY <2>3 DEF ResetStats, environment, EchoStats
  <2>4. ASSUME NEW entry \in Inserts, RegistryInsert(entry)
        PROVE  TypeOK'
    BY <2>4, EchoConstants DEF RegistryInsert, propagator
  <2>5. CASE StartRound
    <3>1. rounds' \in 0 .. MaxRounds
      BY <2>5, EchoConstants DEF StartRound
    <3>2. QED  BY <2>5, <3>1, EmptySeq DEF StartRound, BeginPropagate
  <2>6. CASE PopEcho /\ UNCHANGED environment
    <3>1. Head(pending) \in PendingEcho /\ Tail(pending) \in Seq(PendingEcho)
      BY <2>6, HeadTailProperties DEF PopEcho
    <3>2. dependents[Head(pending).source] \in SUBSET Addr
      <4>1. Head(pending).source \in Addr
        BY <3>1 DEF PendingEcho
      <4>2. dependents \in [Addr -> SUBSET Addr]
        BY EchoConstants
      <4>3. QED  BY <4>1, <4>2
    <3>3. current' # NoEcho \/ todo' = {}
      BY <2>6, <3>1, EchoConstants DEF PopEcho
    <3>4. QED  BY <2>6, <3>1, <3>2, <3>3 DEF PopEcho, environment
  <2>7. ASSUME NEW d \in todo, Visit(d)
        PROVE  TypeOK'
    <3> USE DEF Visiting, Visited, environment
    <3>0. current \in PendingEcho
      BY <2>7
    <3>1. CASE SkipGated(d) /\ UNCHANGED environment
      BY <3>1, CountersType DEF SkipGated
    <3>2. CASE SkipMissing(d, store) /\ UNCHANGED environment
      BY <3>2 DEF SkipMissing
    <3>3. CASE CancelEcho(d, store) /\ UNCHANGED environment
      BY <3>3, CountersType DEF CancelEcho
    <3>4. CASE DampEcho(d, store) /\ UNCHANGED environment
      <4> DEFINE copy == [current EXCEPT !.depth = (@ + 1) % U8]
      <4>2. copy \in PendingEcho
        BY <3>0, CopyType
      <4>3. Append(processed, copy) \in Seq(PendingEcho)
        BY <4>2, AppendProperties
      <4>4. processed' \in Seq(PendingEcho)
        BY <3>4, <4>3 DEF DampEcho
      <4>5. QED  BY <3>4, <4>4, CountersType DEF DampEcho
    <3>5. CASE DampPanic(d, store) /\ UNCHANGED environment
      BY <3>5, EmptySeq, CountersType DEF DampPanic
    <3>6. CASE Deliver(d)
      <4>1. current.delta \in Lane
        BY <3>0 DEF PendingEcho
      <4>2. d \in DOMAIN store /\ store[d] \in Lane
        BY <3>6 DEF Deliver, DeliverEcho
      <4>3. Xor(store[d], current.delta) \in Lane
        BY <4>1, <4>2 DEF Xor, Lane
      <4>4. DOMAIN store' = DOMAIN store /\ store' \in [DOMAIN store -> Lane]
        BY <3>6, <4>2, <4>3 DEF Deliver
      <4>5. deliveries' \in [(1 .. MaxAccepted) \X Addr -> Nat]
        <5> DEFINE x == <<current.id, d>>
        <5>1. deliveries' = [deliveries EXCEPT ![x] = @ + 1]
          BY <3>6 DEF Deliver
        <5> HIDE DEF x
        <5>2. QED  BY <5>1, CountOne
      <4>6. QED  BY <3>6, <4>4, <4>5, CountersType DEF Deliver, DeliverEcho
    <3>7. QED  BY <2>7, <3>1, <3>2, <3>3, <3>4, <3>5, <3>6 DEF Visit
  <2>8. CASE EndPropagate /\ UNCHANGED environment
    BY <2>8, EmptySeq DEF EndPropagate, environment
  <2>9. CASE UNCHANGED vars
    BY <2>9 DEF vars, propagator
  <2>10. QED
    BY <2>1, <2>2, <2>3, <2>4, <2>5, <2>6, <2>7, <2>8, <2>9 DEF Next, LoopStep
<1>3. QED  BY <1>1, <1>2, PTL DEF Spec

-----------------------------------------------------------------------------
(* Depth and damping. *)

\* Under a depth limit no outstanding echo is deeper than the limit, so the u8 depth of
\* a damped echo cannot overflow. The predicate is inductive given the types.
THEOREM DepthIsLimited == Spec => []DepthWithinLimit
<1> USE DEF DepthWithinLimit, Outstanding
<1>1. Init => DepthWithinLimit
  BY RangeEmpty DEF Init, InitPropagator
<1>2. TypeOK /\ DepthWithinLimit /\ [Next]_vars => DepthWithinLimit'
  <2> SUFFICES ASSUME TypeOK, DepthWithinLimit, [Next]_vars, policy'.max_depth > 0
               PROVE  /\ \A echo \in Outstanding' : echo.depth <= policy'.max_depth
                      /\ todo' # {} => current'.depth < policy'.max_depth
    OBVIOUS
  <2> USE DEF TypeOK
  <2>0. /\ policy' = policy
        /\ policy.max_depth \in 0 .. (U8 - 1)
        /\ U8 \in Nat
    BY EchoConstants DEF EchoPolicy, Next, LoopStep, QueueEcho, DropEcho, AcceptEcho, Clear,
       ResetStats, RegistryInsert, StartRound, BeginPropagate, PopEcho, EndPropagate, Visit,
       SkipGated, SkipMissing, CancelEcho, DampEcho, DampPanic, Deliver, DeliverEcho, Visited,
       vars, propagator
  <2>1. ASSUME NEW delta \in Lane, NEW a \in Addr, NEW layer \in Layers,
               QueueEcho(delta, a, layer)
        PROVE  DepthWithinLimit'
    <3>1. CASE DropEcho
      BY <3>1 DEF DropEcho
    <3>2. CASE AcceptEcho(delta, a, layer, accepted + 1)
      <4> DEFINE echo == [delta |-> delta, source |-> a, depth |-> 0,
                          target_layer |-> layer, id |-> accepted + 1]
      <4>0. accepted + 1 \in Nat /\ 0 \in 0 .. (U8 - 1)
        BY EchoConstants
      <4>1. echo \in PendingEcho /\ echo.depth = 0
        BY <4>0 DEF PendingEcho
      <4>2. Range(pending') = Range(pending) \cup {echo}
        BY <3>2, <4>1, RangeAppend DEF AcceptEcho
      <4>3. QED  BY <2>0, <3>2, <4>1, <4>2 DEF AcceptEcho
    <3>3. QED  BY <2>1, <3>1, <3>2 DEF QueueEcho
  <2>2. CASE Clear
    BY <2>2, RangeEmpty DEF Clear
  <2>3. CASE PopEcho
    <3>1. /\ Head(pending) \in Range(pending)
          /\ Range(Tail(pending)) \subseteq Range(pending)
      BY <2>3, RangeTail DEF PopEcho
    <3>2. Head(pending) \in PendingEcho
      BY <2>3, HeadTailProperties DEF PopEcho
    <3>3. CASE DepthExhausted(Head(pending))
      BY <2>0, <2>3, <3>1, <3>3 DEF PopEcho
    <3>4. CASE ~DepthExhausted(Head(pending))
      <4>1. Head(pending).depth < policy.max_depth
        BY <2>0, <3>2, <3>4 DEF DepthExhausted, PendingEcho
      <4>2. QED  BY <2>0, <2>3, <3>1, <3>4, <4>1 DEF PopEcho
    <3>5. QED  BY <3>3, <3>4
  <2>4. ASSUME NEW d \in todo, Visit(d)
        PROVE  DepthWithinLimit'
    <3> USE DEF Visited, Visiting
    <3>0. current \in PendingEcho /\ current.depth < policy.max_depth
      BY <2>0
    <3>1. CASE SkipGated(d) \/ SkipMissing(d, store) \/ CancelEcho(d, store) \/ Deliver(d)
      <4>1. /\ pending' = pending /\ processed' = processed
            /\ current' = current /\ todo' \subseteq todo
        BY <3>1 DEF SkipGated, SkipMissing, CancelEcho, Deliver, DeliverEcho
      <4>2. QED  BY <2>0, <4>1
    <3>2. CASE DampEcho(d, store)
      <4> DEFINE copy == [current EXCEPT !.depth = (@ + 1) % U8]
      <4>1. current.depth + 1 \in 0 .. (U8 - 1) /\ current.depth + 1 <= policy.max_depth
        BY <2>0, <3>0 DEF PendingEcho
      <4>2. (current.depth + 1) % U8 = current.depth + 1
        BY <4>1, ByteFits
      <4>3. copy \in PendingEcho /\ copy.depth = current.depth + 1
        BY <3>0, <4>1, <4>2 DEF PendingEcho
      <4>4. Range(processed') \subseteq Range(processed) \cup {copy}
        BY <3>2, <4>3, RangeAppend DEF DampEcho
      <4>5. QED  BY <2>0, <3>0, <3>2, <4>1, <4>3, <4>4 DEF DampEcho
    <3>3. CASE DampPanic(d, store)
      BY <2>0, <3>3, RangeEmpty DEF DampPanic
    <3>4. QED  BY <2>4, <3>1, <3>2, <3>3 DEF Visit
  <2>5. CASE EndPropagate
    BY <2>0, <2>5, RangeEmpty DEF EndPropagate
  <2>6. CASE ResetStats \/ StartRound
    BY <2>0, <2>6, RangeEmpty DEF ResetStats, StartRound, BeginPropagate
  <2>7. CASE UNCHANGED propagator
    BY <2>0, <2>7 DEF propagator
  <2>8. QED
    BY <2>1, <2>2, <2>3, <2>4, <2>5, <2>6, <2>7 DEF Next, LoopStep, RegistryInsert, vars
<1>3. QED  BY <1>1, <1>2, TypeCorrect, PTL DEF Spec

\* Whatever outlives a round is a damped echo for a cold layer.
THEOREM HotEchoesDrain == Spec => []OnlyColdRequeued
<1> USE DEF OnlyColdRequeued
<1>1. Init => OnlyColdRequeued
  BY RangeEmpty DEF Init, InitPropagator
<1>2. TypeOK /\ OnlyColdRequeued /\ [Next]_vars => OnlyColdRequeued'
  <2> SUFFICES ASSUME TypeOK, OnlyColdRequeued, [Next]_vars
               PROVE  OnlyColdRequeued'
    OBVIOUS
  <2> USE DEF TypeOK
  <2>1. ASSUME NEW delta \in Lane, NEW a \in Addr, NEW layer \in Layers,
               QueueEcho(delta, a, layer)
        PROVE  OnlyColdRequeued'
    <3>1. CASE DropEcho
      BY <3>1 DEF DropEcho
    <3>2. CASE AcceptEcho(delta, a, layer, accepted + 1)
      <4> DEFINE echo == [delta |-> delta, source |-> a, depth |-> 0,
                          target_layer |-> layer, id |-> accepted + 1]
      <4>1. echo \in PendingEcho /\ ~(echo.depth > 0)
        BY EchoConstants DEF PendingEcho
      <4>2. Range(pending') = Range(pending) \cup {echo}
        BY <3>2, <4>1, RangeAppend DEF AcceptEcho
      <4>3. QED  BY <3>2, <4>1, <4>2 DEF AcceptEcho
    <3>3. QED  BY <2>1, <3>1, <3>2 DEF QueueEcho
  <2>2. CASE Clear
    BY <2>2, RangeEmpty DEF Clear
  <2>3. CASE PopEcho
    <3>1. Range(Tail(pending)) \subseteq Range(pending)
      BY <2>3, RangeTail DEF PopEcho
    <3>2. QED  BY <2>3, <3>1 DEF PopEcho
  <2>4. ASSUME NEW d \in todo, Visit(d)
        PROVE  OnlyColdRequeued'
    <3> USE DEF Visited, Visiting
    <3>1. CASE SkipGated(d) \/ SkipMissing(d, store) \/ CancelEcho(d, store) \/ Deliver(d)
      <4>1. policy' = policy /\ pending' = pending /\ processed' = processed
        BY <3>1 DEF SkipGated, SkipMissing, CancelEcho, Deliver, DeliverEcho
      <4>2. QED  BY <4>1
    <3>2. CASE DampEcho(d, store)
      <4> DEFINE copy == [current EXCEPT !.depth = (@ + 1) % U8]
      <4>1. copy \in PendingEcho /\ copy.target_layer = current.target_layer
        BY CopyType
      <4>2. Range(processed') \subseteq Range(processed) \cup {copy}
        BY <3>2, <4>1, RangeAppend DEF DampEcho
      <4>3. QED  BY <3>2, <4>1, <4>2 DEF DampEcho, Damped
    <3>3. CASE DampPanic(d, store)
      BY <3>3, RangeEmpty DEF DampPanic
    <3>4. QED  BY <2>4, <3>1, <3>2, <3>3 DEF Visit
  <2>5. CASE EndPropagate
    BY <2>5, RangeEmpty DEF EndPropagate
  <2>6. CASE ResetStats \/ StartRound
    BY <2>6, RangeEmpty DEF ResetStats, StartRound, BeginPropagate
  <2>7. CASE UNCHANGED propagator
    BY <2>7 DEF propagator
  <2>8. QED
    BY <2>1, <2>2, <2>3, <2>4, <2>5, <2>6, <2>7 DEF Next, LoopStep, RegistryInsert, vars
<1>3. QED  BY <1>1, <1>2, TypeCorrect, PTL DEF Spec

-----------------------------------------------------------------------------
(* The queue bound. *)

\* The queue keeps within max_queue_size when no register has two dependents: an echo
\* being visited holds the place its damped copy may take in the next queue.
THEOREM QueueInvariant == Spec => []QueueInv
<1> USE DEF QueueInv
<1>1. Init => QueueInv
  BY EchoConstants, EmptySeq DEF Init, InitPropagator, EchoPolicy
<1>2. TypeOK /\ QueueInv /\ [Next]_vars => QueueInv'
  <2> SUFFICES ASSUME TypeOK, QueueInv, [Next]_vars
               PROVE  QueueInv'
    OBVIOUS
  <2> USE DEF TypeOK, AtMostOneDependent
  <2>0. /\ policy.max_queue_size \in Nat
        /\ Len(pending) \in Nat /\ Len(processed) \in Nat
        /\ Len(<<>>) = 0
    BY EchoConstants, LenProperties, EmptySeq DEF EchoPolicy
  <2>1. ASSUME NEW delta \in Lane, NEW a \in Addr, NEW layer \in Layers,
               QueueEcho(delta, a, layer)
        PROVE  QueueInv'
    <3>1. CASE DropEcho
      BY <3>1 DEF DropEcho
    <3>2. CASE AcceptEcho(delta, a, layer, accepted + 1)
      <4> DEFINE echo == [delta |-> delta, source |-> a, depth |-> 0,
                          target_layer |-> layer, id |-> accepted + 1]
      <4>0. accepted + 1 \in Nat /\ 0 \in 0 .. (U8 - 1)
        BY EchoConstants
      <4>1. echo \in PendingEcho
        BY <4>0 DEF PendingEcho
      <4>2. Len(pending') = Len(pending) + 1
        BY <3>2, <4>1, AppendProperties DEF AcceptEcho
      <4>3. QED  BY <2>0, <3>2, <4>2 DEF AcceptEcho
    <3>3. QED  BY <2>1, <3>1, <3>2 DEF QueueEcho
  <2>2. CASE Clear
    BY <2>0, <2>2 DEF Clear
  <2>3. CASE PopEcho
    <3>1. /\ Len(Tail(pending)) = Len(pending) - 1
          /\ Head(pending) \in PendingEcho
      BY <2>3, HeadTailProperties DEF PopEcho
    <3>2. Head(pending).source \in Addr
      BY <3>1 DEF PendingEcho
    <3>3. QED  BY <2>0, <2>3, <3>1, <3>2 DEF PopEcho
  <2>4. ASSUME NEW d \in todo, Visit(d)
        PROVE  QueueInv'
    <3> USE DEF Visited, Visiting
    <3>0. ASSUME AtMostOneDependent
          PROVE  todo = {d}
      BY <3>0
    <3>1. CASE SkipGated(d) \/ SkipMissing(d, store) \/ CancelEcho(d, store) \/ Deliver(d)
      <4>1. /\ pending' = pending /\ processed' = processed /\ todo' = todo \ {d}
            /\ policy' = policy /\ dependents' = dependents /\ phase' = phase
        BY <3>1 DEF SkipGated, SkipMissing, CancelEcho, Deliver, DeliverEcho
      <4>2. QED  BY <2>0, <3>0, <4>1, phase = "propagating"
    <3>2. CASE DampEcho(d, store)
      <4> DEFINE copy == [current EXCEPT !.depth = (@ + 1) % U8]
      <4>0. current \in PendingEcho
        BY <3>2
      <4>1. copy \in PendingEcho
        BY <4>0, CopyType
      <4>2. Len(processed') <= Len(processed) + 1 /\ Len(processed') \in Nat
        BY <2>0, <3>2, <4>1, AppendProperties DEF DampEcho
      <4>3. /\ pending' = pending /\ todo' = todo \ {d} /\ dependents' = dependents
            /\ policy' = policy /\ phase' = phase /\ phase = "propagating"
        BY <3>2 DEF DampEcho
      <4>4. todo' # {} => \E a \in Addr : todo' \subseteq dependents'[a]
        BY <4>3
      <4>5. AtMostOneDependent =>
              Len(pending') + Len(processed') + (IF todo' = {} THEN 0 ELSE 1)
                <= policy'.max_queue_size
        BY <2>0, <3>0, <4>2, <4>3
      <4>6. QED  BY <4>3, <4>4, <4>5
    <3>3. CASE DampPanic(d, store)
      BY <2>0, <3>3 DEF DampPanic
    <3>4. QED  BY <2>4, <3>1, <3>2, <3>3 DEF Visit
  <2>5. CASE EndPropagate
    BY <2>0, <2>5 DEF EndPropagate
  <2>6. CASE ResetStats \/ StartRound
    BY <2>0, <2>6 DEF ResetStats, StartRound, BeginPropagate
  <2>7. CASE UNCHANGED propagator
    BY <2>7 DEF propagator
  <2>8. QED
    BY <2>1, <2>2, <2>3, <2>4, <2>5, <2>6, <2>7 DEF Next, LoopStep, RegistryInsert, vars
<1>3. QED  BY <1>1, <1>2, TypeCorrect, PTL DEF Spec

\* The bound itself, without the place held by the echo being visited.
THEOREM ChainsStayBounded == Spec => []QueueBoundedForChains
<1>1. TypeOK /\ QueueInv => QueueBoundedForChains
  BY EchoConstants, LenProperties DEF TypeOK, QueueInv, QueueBoundedForChains, EchoPolicy
<1>2. QED  BY <1>1, TypeCorrect, QueueInvariant, PTL

-----------------------------------------------------------------------------
(* At-most-once delivery. *)

\* Nothing has been accepted or delivered at first.
LEMMA DeliveryInvInit == Init => DeliveryInv
  BY RangeEmpty, EmptySeq, EchoConstants
     DEF Init, InitPropagator, DeliveryInv, AtMostOnceDelivery, Undelivered

\* Accepting an echo numbers it past every earlier one.
LEMMA AcceptKeepsDelivery ==
  ASSUME TypeOK, DeliveryInv, NEW delta \in Lane, NEW a \in Addr, NEW layer \in Layers,
         todo = {}, accepted < MaxAccepted, accepted' = accepted + 1,
         AcceptEcho(delta, a, layer, accepted + 1), UNCHANGED deliveries
  PROVE  DeliveryInv'
<1> DEFINE echo == [delta |-> delta, source |-> a, depth |-> 0,
                    target_layer |-> layer, id |-> accepted + 1]
<1>0. accepted + 1 \in 1 .. MaxAccepted /\ 0 \in 0 .. (U8 - 1) /\ accepted \in Nat
  BY EchoConstants DEF TypeOK
<1>1. echo \in PendingEcho /\ echo.id = accepted + 1
  BY <1>0 DEF PendingEcho
<1>2. /\ pending \in Seq(PendingEcho) /\ pending' = Append(pending, echo)
      /\ UNCHANGED <<policy, processed, todo, current>>
  BY DEF AcceptEcho, TypeOK
<1> HIDE DEF echo
<1>3. /\ Len(pending') = Len(pending) + 1 /\ Len(pending) \in Nat
      /\ \A i \in 1 .. Len(pending) : pending'[i] = pending[i]
      /\ pending'[Len(pending) + 1] = echo
      /\ Range(pending') = Range(pending) \cup {echo}
  BY <1>1, <1>2, AppendProperties, RangeAppend
<1>4. \A i \in 1 .. Len(pending) : pending[i] \in Range(pending)
  BY <1>2, LenProperties DEF Range
<1>5. \A i \in 1 .. Len(pending) : pending[i].id \in 1 .. accepted
  BY <1>4 DEF DeliveryInv
<1>6. Undelivered(echo.id, Addr)
  BY <1>0, <1>1 DEF DeliveryInv
<1>7. \A e \in Range(pending') \cup Range(processed') : e.id \in 1 .. accepted'
  BY <1>0, <1>1, <1>2, <1>3 DEF DeliveryInv
<1>8. \A i, j \in 1 .. Len(pending') :
         i # j /\ Deliverable(pending'[i]) => pending'[i].id # pending'[j].id
  <2> SUFFICES ASSUME NEW i \in 1 .. Len(pending'), NEW j \in 1 .. Len(pending'), i # j,
                      Deliverable(pending'[i])
               PROVE  pending'[i].id # pending'[j].id
    OBVIOUS
  <2>1. CASE i <= Len(pending) /\ j <= Len(pending)
    BY <1>3, <2>1 DEF DeliveryInv
  <2>2. CASE i = Len(pending) + 1 \/ j = Len(pending) + 1
    BY <1>0, <1>1, <1>3, <1>5, <2>2
  <2>3. QED  BY <1>3, <2>1, <2>2
<1>9. \A i \in 1 .. Len(pending') :
         Deliverable(pending'[i]) => Undelivered(pending'[i].id, Addr)
  <2> SUFFICES ASSUME NEW i \in 1 .. Len(pending'), Deliverable(pending'[i])
               PROVE  Undelivered(pending'[i].id, Addr)
    OBVIOUS
  <2>1. CASE i <= Len(pending)
    BY <1>3, <2>1 DEF DeliveryInv
  <2>2. CASE i = Len(pending) + 1
    BY <1>3, <1>6, <2>2
  <2>3. QED  BY <1>3, <2>1, <2>2
<1>10. /\ (\A i, j \in 1 .. Len(pending) :
             i # j /\ Deliverable(pending[i]) => pending[i].id # pending[j].id)'
       /\ (\A i \in 1 .. Len(pending) :
             Deliverable(pending[i]) => Undelivered(pending[i].id, Addr))'
  BY <1>2, <1>8, <1>9 DEF Deliverable, Undelivered
<1>11. AtMostOnceDelivery'
  BY DEF DeliveryInv, AtMostOnceDelivery
<1>12. \A id \in (accepted' + 1) .. MaxAccepted : Undelivered(id, Addr)'
  <2> SUFFICES ASSUME NEW id \in (accepted' + 1) .. MaxAccepted
               PROVE  Undelivered(id, Addr)'
    OBVIOUS
  <2>1. id \in (accepted + 1) .. MaxAccepted
    BY <1>0, EchoConstants
  <2>2. Undelivered(id, Addr)
    BY <2>1 DEF DeliveryInv
  <2>3. QED  BY <2>2 DEF Undelivered
<1>13. todo' = {}
  BY <1>2
<1>14. QED
  BY <1>7, <1>10, <1>11, <1>12, <1>13 DEF DeliveryInv

\* Popping hands the head's claim to be undelivered over to the echo being visited.
LEMMA PopKeepsDelivery ==
  ASSUME TypeOK, DeliveryInv, PopEcho, UNCHANGED environment
  PROVE  DeliveryInv'
<1>1. /\ pending \in Seq(PendingEcho) /\ pending # <<>> /\ pending' = Tail(pending)
      /\ UNCHANGED <<policy, processed, accepted, deliveries>>
  BY DEF PopEcho, TypeOK, environment
<1>2. /\ Len(pending) \in Nat \ {0} /\ Len(pending') = Len(pending) - 1
      /\ \A i \in 1 .. Len(pending') : pending'[i] = pending[i + 1]
      /\ Head(pending) = pending[1]
      /\ Head(pending) \in Range(pending)
      /\ Head(pending) \in PendingEcho
      /\ Range(pending') \subseteq Range(pending)
  BY <1>1, HeadTailProperties, RangeTail
<1>3. \A i \in 1 .. Len(pending') : i + 1 \in 1 .. Len(pending) /\ i + 1 # 1
  BY <1>2
<1>4. \A e : Deliverable(e)' <=> Deliverable(e)
  BY <1>1 DEF Deliverable
<1>5. \A id, S : Undelivered(id, S)' <=> Undelivered(id, S)
  BY <1>1 DEF Undelivered
<1>6. /\ \A i, j \in 1 .. Len(pending') :
           i # j /\ Deliverable(pending'[i]) => pending'[i].id # pending'[j].id
      /\ \A i \in 1 .. Len(pending') :
           Deliverable(pending'[i]) => Undelivered(pending'[i].id, Addr)
  <2>1. \A i, j \in 1 .. Len(pending') : i # j => i + 1 # j + 1
    BY <1>2
  <2>2. ASSUME NEW i \in 1 .. Len(pending'), Deliverable(pending'[i])
        PROVE  /\ \A j \in 1 .. Len(pending') : i # j => pending'[i].id # pending'[j].id
               /\ Undelivered(pending'[i].id, Addr)
    <3>1. pending'[i] = pending[i + 1] /\ i + 1 \in 1 .. Len(pending)
      BY <1>2, <1>3
    <3>2. /\ Undelivered(pending[i + 1].id, Addr)
          /\ \A j \in 1 .. Len(pending) : i + 1 # j => pending[i + 1].id # pending[j].id
      BY <2>2, <3>1 DEF DeliveryInv
    <3>3. QED  BY <1>2, <1>3, <2>1, <3>1, <3>2
  <2>3. QED  BY <2>2
<1>7. ASSUME todo' # {}
      PROVE  /\ current' = Head(pending)
             /\ todo' \subseteq Addr
  <2>1. current' = Head(pending) /\ todo' = dependents[Head(pending).source]
    BY <1>7 DEF PopEcho
  <2>2. Head(pending).source \in Addr /\ dependents \in [Addr -> SUBSET Addr]
    BY <1>2, EchoConstants DEF PendingEcho, TypeOK
  <2>3. QED  BY <2>1, <2>2
<1>8. ASSUME todo' # {}, Deliverable(current')
      PROVE  /\ Undelivered(current'.id, todo')
             /\ \A i \in 1 .. Len(pending') : pending'[i].id # current'.id
  <2>1. current' = pending[1] /\ 1 \in 1 .. Len(pending)
    BY <1>2, <1>7, <1>8
  <2>2. Undelivered(pending[1].id, Addr)
    BY <1>8, <2>1 DEF DeliveryInv
  <2>3. \A j \in 1 .. Len(pending) : j # 1 => pending[1].id # pending[j].id
    BY <1>8, <2>1 DEF DeliveryInv
  <2>4. Undelivered(current'.id, todo')
    BY <1>7, <1>8, <2>1, <2>2 DEF Undelivered
  <2>5. QED  BY <1>2, <1>3, <2>1, <2>3, <2>4
<1>9. /\ \A e \in Range(pending') \cup Range(processed') : e.id \in 1 .. accepted'
      /\ todo' # {} => current'.id \in 1 .. accepted'
  BY <1>1, <1>2, <1>7 DEF DeliveryInv
<1>10. QED
  BY <1>1, <1>4, <1>5, <1>6, <1>8, <1>9 DEF DeliveryInv, AtMostOnceDelivery

\* A visit that delivers nothing.
LEMMA VisitKeepsDelivery ==
  ASSUME DeliveryInv, todo # {}, todo' \subseteq todo,
         UNCHANGED <<policy, pending, accepted, deliveries>>,
         todo' # {} => current' = current,
         \A e \in Range(processed') : e \in Range(processed) \/ e.id = current.id
  PROVE  DeliveryInv'
<1>1. \A e : Deliverable(e)' <=> Deliverable(e)
  BY DEF Deliverable
<1>2. \A id, S : Undelivered(id, S)' <=> Undelivered(id, S)
  BY DEF Undelivered
<1>3. /\ \A e \in Range(pending') \cup Range(processed') : e.id \in 1 .. accepted'
      /\ todo' # {} => current'.id \in 1 .. accepted'
  BY DEF DeliveryInv
<1>4. ASSUME todo' # {}, Deliverable(current')
      PROVE  /\ Undelivered(current'.id, todo')
             /\ \A i \in 1 .. Len(pending') : pending'[i].id # current'.id
  BY <1>4 DEF DeliveryInv, Undelivered
<1>5. QED
  BY <1>1, <1>2, <1>3, <1>4 DEF DeliveryInv, AtMostOnceDelivery

\* A delivery is the first of its echo to that dependent, and the echo is in no queue.
LEMMA DeliverKeepsDelivery ==
  ASSUME TypeOK, DeliveryInv, NEW d \in todo, Deliver(d)
  PROVE  DeliveryInv'
<1> DEFINE x == <<current.id, d>>
<1>1. /\ UNCHANGED <<policy, pending, processed, current, accepted>>
      /\ todo' = todo \ {d}
      /\ Deliverable(current)
      /\ deliveries' = [deliveries EXCEPT ![x] = @ + 1]
  BY DEF Deliver, DeliverEcho, Damped, Visited, Deliverable
<1>2. /\ current.id \in 1 .. accepted
      /\ deliveries[x] = 0
      /\ \A i \in 1 .. Len(pending) : pending[i].id # current.id
      /\ Undelivered(current.id, todo)
  BY <1>1 DEF DeliveryInv, Undelivered
<1>3. /\ deliveries \in [(1 .. MaxAccepted) \X Addr -> Nat]
      /\ accepted \in 0 .. MaxAccepted /\ todo \subseteq Addr
      /\ MaxAccepted \in Nat
  BY EchoConstants DEF TypeOK
<1>4. x \in (1 .. MaxAccepted) \X Addr
  BY <1>2, <1>3
<1>5. \A id \in 1 .. MaxAccepted, e \in Addr :
         deliveries'[<<id, e>>] = IF id = current.id /\ e = d THEN 1 ELSE deliveries[<<id, e>>]
  BY <1>1, <1>2, <1>3, <1>4
<1>6. \A e : Deliverable(e)' <=> Deliverable(e)
  BY <1>1 DEF Deliverable
<1>7. ASSUME NEW id \in 1 .. MaxAccepted, id # current.id, Undelivered(id, Addr)
      PROVE  \A e \in Addr : deliveries'[<<id, e>>] = 0
  BY <1>5, <1>7 DEF Undelivered
<1> HIDE DEF x
<1>8. AtMostOnceDelivery'
  <2>1. AtMostOnceDelivery
    BY DEF DeliveryInv
  <2>2. ASSUME NEW id \in 1 .. MaxAccepted, NEW e \in Addr
        PROVE  deliveries'[<<id, e>>] <= 1
    <3>1. deliveries[<<id, e>>] <= 1
      BY <2>1 DEF AtMostOnceDelivery
    <3>2. CASE id = current.id /\ e = d
      BY <1>5, <3>2
    <3>3. CASE ~(id = current.id /\ e = d)
      BY <1>5, <3>1, <3>3
    <3>4. QED  BY <3>2, <3>3
  <2>3. QED  BY <2>2 DEF AtMostOnceDelivery
<1>9. \A id \in (accepted + 1) .. MaxAccepted :
         \A e \in Addr : deliveries'[<<id, e>>] = 0
  <2> SUFFICES ASSUME NEW id \in (accepted + 1) .. MaxAccepted
               PROVE  \A e \in Addr : deliveries'[<<id, e>>] = 0
    OBVIOUS
  <2>1. id \in 1 .. MaxAccepted /\ id # current.id
    BY <1>2, <1>3
  <2>2. QED  BY <1>7, <2>1 DEF DeliveryInv
<1>10. \A i \in 1 .. Len(pending) :
          Deliverable(pending[i]) =>
            \A e \in Addr : deliveries'[<<pending[i].id, e>>] = 0
  <2> SUFFICES ASSUME NEW i \in 1 .. Len(pending), Deliverable(pending[i])
               PROVE  \A e \in Addr : deliveries'[<<pending[i].id, e>>] = 0
    OBVIOUS
  <2>1. pending[i] \in Range(pending)
    BY LenProperties DEF TypeOK, Range
  <2>2. pending[i].id \in 1 .. MaxAccepted
    BY <1>3, <2>1 DEF DeliveryInv
  <2>3. Undelivered(pending[i].id, Addr)
    BY DEF DeliveryInv
  <2>4. QED  BY <1>2, <1>7, <2>2, <2>3
<1>11. \A e \in todo' : deliveries'[<<current.id, e>>] = 0
  <2>1. \A e \in todo' : e \in Addr /\ e # d /\ deliveries[<<current.id, e>>] = 0
    BY <1>1, <1>2, <1>3 DEF Undelivered
  <2>2. \A e \in todo' : deliveries'[<<current.id, e>>] = 0
    BY <1>2, <1>3, <1>5, <2>1
  <2>3. QED  BY <2>2
<1>12. /\ \A e \in Range(pending') \cup Range(processed') : e.id \in 1 .. accepted'
       /\ todo' # {} => current'.id \in 1 .. accepted'
  BY <1>1 DEF DeliveryInv
<1>13. \A i, j \in 1 .. Len(pending') :
          i # j /\ Deliverable(pending'[i]) => pending'[i].id # pending'[j].id
  BY <1>1 DEF DeliveryInv
<1>14. QED
  BY <1>1, <1>2, <1>6, <1>8, <1>9, <1>10, <1>11, <1>12, <1>13 DEF DeliveryInv, Undelivered

\* What a round puts back is cold, so nothing in the next queue is deliverable.
LEMMA EndKeepsDelivery ==
  ASSUME TypeOK, OnlyColdRequeued, DeliveryInv, EndPropagate, UNCHANGED environment
  PROVE  DeliveryInv'
<1>1. /\ pending' = processed /\ processed' = <<>> /\ todo' = {}
      /\ UNCHANGED <<policy, accepted, deliveries>>
      /\ processed \in Seq(PendingEcho)
  BY DEF EndPropagate, environment, TypeOK
<1>2. \A i \in 1 .. Len(pending') : pending'[i] \in Range(processed)
  BY <1>1, LenProperties DEF Range
<1>3. \A i \in 1 .. Len(pending') : ~Deliverable(pending'[i])
  BY <1>2 DEF OnlyColdRequeued, Deliverable
<1>5. \A e : Deliverable(e)' <=> Deliverable(e)
  BY <1>1 DEF Deliverable
<1>6. \A e \in Range(pending') \cup Range(processed') : e.id \in 1 .. accepted'
  BY <1>1, RangeEmpty DEF DeliveryInv
<1>4. \A id, S : Undelivered(id, S)' <=> Undelivered(id, S)
  BY <1>1 DEF Undelivered
<1>7. QED
  BY <1>1, <1>3, <1>4, <1>5, <1>6 DEF DeliveryInv, AtMostOnceDelivery

\* Dropping echoes, or none, delivers nothing.
LEMMA QuietKeepsDelivery ==
  ASSUME DeliveryInv, todo' = {}, UNCHANGED <<policy, accepted, deliveries>>,
         pending' = pending \/ pending' = <<>>,
         processed' = processed \/ processed' = <<>>
  PROVE  DeliveryInv'
<1>1. \A e : Deliverable(e)' <=> Deliverable(e)
  BY DEF Deliverable
<1>2. \A id, S : Undelivered(id, S)' <=> Undelivered(id, S)
  BY DEF Undelivered
<1>3. Range(pending') \subseteq Range(pending) /\ Range(processed') \subseteq Range(processed)
  BY RangeEmpty
<1>4. 1 .. Len(pending') = {} \/ pending' = pending
  BY EmptySeq
<1>5. QED
  BY <1>1, <1>2, <1>3, <1>4 DEF DeliveryInv, AtMostOnceDelivery

\* No accepted echo changes a dependent twice: XOR-merging a delta again would undo it.
THEOREM DeliveredAtMostOnce == Spec => []AtMostOnceDelivery
<1>1. ASSUME TypeOK, QueueInv, OnlyColdRequeued, DeliveryInv, [Next]_vars
      PROVE  DeliveryInv'
  <2> USE <1>1
  <2>1. ASSUME NEW delta \in Lane, NEW a \in Addr, NEW layer \in Layers,
               QueueEcho(delta, a, layer)
        PROVE  DeliveryInv'
    <3>1. CASE DropEcho /\ UNCHANGED environment
      BY <3>1, QuietKeepsDelivery DEF DropEcho, environment, QueueInv
    <3>2. CASE /\ accepted < MaxAccepted
               /\ AcceptEcho(delta, a, layer, accepted + 1)
               /\ accepted' = accepted + 1
               /\ UNCHANGED <<registry, store, rounds, deliveries>>
      <4>1. todo = {}
        BY <3>2 DEF AcceptEcho, QueueInv
      <4>2. QED  BY <3>2, <4>1, AcceptKeepsDelivery
    <3>3. QED  BY <2>1, <3>1, <3>2 DEF QueueEcho
  <2>2. CASE (Clear \/ ResetStats) /\ UNCHANGED environment
    BY <2>2, QuietKeepsDelivery DEF Clear, ResetStats, environment, QueueInv
  <2>3. CASE StartRound
    BY <2>3, QuietKeepsDelivery DEF StartRound, BeginPropagate, QueueInv
  <2>4. CASE PopEcho /\ UNCHANGED environment
    BY <2>4, PopKeepsDelivery
  <2>5. ASSUME NEW d \in todo, Visit(d)
        PROVE  DeliveryInv'
    <3> USE DEF Visited, Visiting, environment
    <3>1. CASE SkipGated(d) /\ UNCHANGED environment
      BY <2>5, <3>1, VisitKeepsDelivery DEF SkipGated
    <3>2. CASE SkipMissing(d, store) /\ UNCHANGED environment
      BY <2>5, <3>2, VisitKeepsDelivery DEF SkipMissing
    <3>3. CASE CancelEcho(d, store) /\ UNCHANGED environment
      BY <2>5, <3>3, VisitKeepsDelivery DEF CancelEcho
    <3>4. CASE DampEcho(d, store) /\ UNCHANGED environment
      <4> DEFINE copy == [current EXCEPT !.depth = (@ + 1) % U8]
      <4>1. current \in PendingEcho /\ processed \in Seq(PendingEcho)
        BY <2>5 DEF TypeOK
      <4>2. copy \in PendingEcho /\ copy.id = current.id
        BY <4>1, CopyType
      <4>3. Range(processed') \subseteq Range(processed) \cup {copy}
        BY <3>4, <4>1, <4>2, RangeAppend DEF DampEcho
      <4>4. \A e \in Range(processed') : e \in Range(processed) \/ e.id = current.id
        BY <4>2, <4>3
      <4>5. QED  BY <2>5, <3>4, <4>4, VisitKeepsDelivery DEF DampEcho
    <3>5. CASE DampPanic(d, store) /\ UNCHANGED environment
      BY <3>5, QuietKeepsDelivery DEF DampPanic
    <3>6. CASE Deliver(d)
      BY <2>5, <3>6, DeliverKeepsDelivery
    <3>7. QED  BY <2>5, <3>1, <3>2, <3>3, <3>4, <3>5, <3>6 DEF Visit
  <2>6. CASE EndPropagate /\ UNCHANGED environment
    BY <2>6, EndKeepsDelivery
  <2>7. CASE (\E entry \in Inserts : RegistryInsert(entry)) \/ UNCHANGED vars
    <3>1. UNCHANGED <<policy, pending, processed, current, todo, accepted, deliveries>>
      BY <2>7 DEF RegistryInsert, vars, propagator
    <3>2. QED
      BY <3>1 DEF DeliveryInv, AtMostOnceDelivery, Deliverable, Undelivered
  <2>8. QED
    BY <2>1, <2>2, <2>3, <2>4, <2>5, <2>6, <2>7 DEF Next, LoopStep
<1>2. DeliveryInv => AtMostOnceDelivery
  BY DEF DeliveryInv
<1>3. QED
  BY <1>1, <1>2, DeliveryInvInit, TypeCorrect, QueueInvariant, HotEchoesDrain, PTL DEF Spec
=============================================================================
