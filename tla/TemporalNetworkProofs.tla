------------------------ MODULE TemporalNetworkProofs ------------------------
(***************************************************************************)
(* Theorems about TemporalNetwork, for any gates, packets and schedules: a *)
(* sealed packet passes only after the control packet its ticket was       *)
(* sealed with, no hop is lost, and what turns the clock back.             *)
(***************************************************************************)
EXTENDS TemporalNetwork, FiniteSetTheorems, WellFoundedInduction, TLAPS

EventType == [arrival_time : Nat, destination : Address, packet : Packets,
              backdated : BOOLEAN]

EntryType == [packet : Packets, at : Address, gate : {None} \cup GateDefs,
              status : Status \cup {"NoGate"}, time : Nat, ok : BOOLEAN]

-----------------------------------------------------------------------------
(* Lemmas about bags and greatest elements. *)

\* A set of numbers that is not empty has a least one.
LEMMA LeastNumber ==
  ASSUME NEW S, S \subseteq Nat, S # {}
  PROVE  \E i \in S : \A j \in S : i <= j
<1>1. PICK i \in S : \A j \in S : <<j, i>> \notin OpToRel(<, Nat)
  BY WFMin, NatLessThanWellFounded, Zenon
<1>2. \A j \in S : j \in Nat /\ i \in Nat
  OBVIOUS
<1>3. \A j \in S : ~(j < i)
  BY <1>1, <1>2, Zenon DEF OpToRel
<1>4. QED  BY <1>2, <1>3

\* The greatest of numbers up to n, and what a greater one makes of it.
LEMMA MaxFacts ==
  ASSUME NEW n \in Nat, NEW S, S \subseteq 0 .. n, S # {}
  PROVE  Max(S) \in S /\ \A i \in S : i <= Max(S)
<1> DEFINE D == {n - i : i \in S}
<1>1. D \subseteq Nat /\ D # {}
  <2>1. \A i \in S : n - i \in Nat
    OBVIOUS
  <2>2. QED  BY <2>1
<1>2. \E d \in D : \A c \in D : d <= c
  <2> HIDE DEF D
  <2> QED  BY <1>1, LeastNumber
<1>3. \E i \in S : \A j \in S : i >= j
  <2>1. PICK i \in S : \A c \in D : n - i <= c
    BY <1>2
  <2>2. \A j \in S : n - i <= n - j
    BY <2>1
  <2>3. QED  BY <2>2
<1>4. QED  BY <1>3 DEF Max

\* The greatest of a set that has one.
LEMMA MaxIs ==
  ASSUME NEW S, NEW n \in S, S \subseteq Nat, \A i \in S : i <= n
  PROVE  Max(S) = n
<1>1. n >= n /\ \A i \in S : n >= i
  BY DEF Max
<1>2. \A x \in S : (\A y \in S : x >= y) => x = n
  BY <1>1
<1>3. QED  BY <1>1, <1>2 DEF Max

\* Members of a sum and of a difference of bags.
LEMMA BagMembers ==
  ASSUME NEW q, NEW b
  PROVE  /\ BagToSet(q (+) b) = BagToSet(q) \cup BagToSet(b)
         /\ \A e : /\ BagToSet(q (-) SetToBag({e})) \subseteq BagToSet(q)
                   /\ \A f \in BagToSet(q) : f # e /\ q[f] > 0
                        => f \in BagToSet(q (-) SetToBag({e}))
         /\ \A S : BagToSet(SetToBag(S)) = S
BY DEF BagToSet, (+), (-), SetToBag

\* Sums and differences of bags are bags.
LEMMA BagsMade ==
  /\ IsABag(EmptyBag) /\ BagToSet(EmptyBag) = {}
  /\ \A e : IsABag(SetToBag({e}))
  /\ \A q, b : IsABag(q) /\ IsABag(b) => IsABag(q (+) b)
  /\ \A q, e : IsABag(q) => IsABag(q (-) SetToBag({e}))
BY DEF IsABag, (+), (-), SetToBag, EmptyBag, BagToSet

\* The position a control packet's hash is latched from.
LEMMA EvaluateType ==
  ASSUME NEW g, NEW arrival, NEW lifeterm
  PROVE  Evaluate(g, arrival, lifeterm) \in Status
BY DEF Evaluate, Status

-----------------------------------------------------------------------------
(* Types. *)

Types ==
  /\ current_time \in Nat /\ scheduled \in 0 .. MaxScheduled /\ running \in BOOLEAN
  /\ gates \in [Address -> {None} \cup GateDefs]
  /\ IsABag(event_queue) /\ BagToSet(event_queue) \subseteq EventType
  /\ execution_log \in Seq(EntryType)
  /\ control_register \in {None} \cup HashesOn("A")
  /\ data_register \in {None} \cup HashesOn("B")

\* An event is made of its parts, and marked by the clock it is scheduled at.
LEMMA EventFacts ==
  ASSUME NEW dest \in Address, NEW at \in Nat, NEW p \in Packets, NEW clock \in Nat
  PROVE  /\ Event(dest, at, p, clock) \in EventType
         /\ Event(dest, at, p, clock).arrival_time = at
         /\ Event(dest, at, p, clock).destination = dest
         /\ Event(dest, at, p, clock).packet = p
         /\ at < clock => Event(dest, at, p, clock).backdated
<1>1. (at < clock) \in BOOLEAN
  OBVIOUS
<1> DEFINE late == at < clock
           e == [arrival_time |-> at, destination |-> dest, packet |-> p, backdated |-> late]
<1>2. Event(dest, at, p, clock) = e
  BY DEF Event
<1>3. late \in BOOLEAN
  BY <1>1
<1> HIDE DEF late
<1>4. e \in EventType /\ e.backdated = late
  BY <1>3, Zenon DEF EventType
<1>5. late => e.backdated
  BY <1>4, Zenon
<1>6. QED  BY <1>2, <1>4, <1>5 DEF late

\* The hops of a route are events, of which there is one for each hop.
LEMMA HopsFacts ==
  ASSUME NEW e \in EventType, NEW route \in Seq(Address)
  PROVE  /\ IsABag(Hops(e, route))
         /\ BagToSet(Hops(e, route)) = {Event(route[i], e.arrival_time + HopDelay, e.packet,
                                             e.arrival_time) : i \in DOMAIN route}
         /\ BagToSet(Hops(e, route)) \subseteq EventType
<1> DEFINE made(i) == Event(route[i], e.arrival_time + HopDelay, e.packet, e.arrival_time)
           events == {made(i) : i \in DOMAIN route}
           to(x) == {i \in DOMAIN route : route[i] = x.destination}
<1>1. e.arrival_time \in Nat /\ e.packet \in Packets /\ e.arrival_time + HopDelay \in Nat
  BY DEF EventType, HopDelay
<1>2. \A i \in DOMAIN route : made(i) \in EventType /\ made(i).destination = route[i]
  BY <1>1, EventFacts
<1>3. ASSUME NEW x \in events
      PROVE  Cardinality(to(x)) \in Nat /\ Cardinality(to(x)) > 0
  <2>1. to(x) # {}
    BY <1>2
  <2>2. IsFiniteSet(to(x))
    <3>1. IsFiniteSet(1 .. Len(route))
      BY FS_Interval
    <3>2. to(x) \subseteq 1 .. Len(route)
      OBVIOUS
    <3>3. QED  BY <3>1, <3>2, FS_Subset
  <2> HIDE DEF to
  <2>3. Cardinality(to(x)) \in Nat
    BY <2>2, FS_CardinalityType
  <2>4. Cardinality(to(x)) # 0
    BY <2>1, <2>2, FS_EmptySet, Zenon
  <2>5. QED  BY <2>3, <2>4
<1>4. Hops(e, route) = [x \in events |-> Cardinality(to(x))]
  BY DEF Hops
<1>5. events \subseteq EventType
  BY <1>2
<1> HIDE DEF events, to
<1>6. IsABag(Hops(e, route)) /\ BagToSet(Hops(e, route)) = events
  BY <1>3, <1>4 DEF IsABag, BagToSet
<1>7. QED  BY <1>5, <1>6 DEF events

\* What a step has popped.
LEMMA PoppedFacts ==
  ASSUME Types, NEW e \in Earliest(event_queue)
  PROVE  /\ e \in EventType /\ e \in BagToSet(event_queue)
         /\ gates[e.destination] \in {None} \cup GateDefs
         /\ \A f \in BagToSet(event_queue) : e.arrival_time <= f.arrival_time
         /\ \A f \in BagToSet(event_queue) : f # e =>
              f \in BagToSet(event_queue (-) SetToBag({e}))
         /\ IsABag(event_queue (-) SetToBag({e}))
         /\ BagToSet(event_queue (-) SetToBag({e})) \subseteq BagToSet(event_queue)
<1>1. e \in EventType /\ e \in BagToSet(event_queue)
  BY DEF Earliest, Types
<1>2. gates[e.destination] \in {None} \cup GateDefs
  BY <1>1 DEF Types, EventType
<1>3. \A f \in BagToSet(event_queue) : e.arrival_time <= f.arrival_time
  BY DEF Earliest
<1>4. \A f \in BagToSet(event_queue) : event_queue[f] > 0
  BY DEF Types, IsABag, BagToSet
<1>5. IsABag(event_queue (-) SetToBag({e}))
  BY BagsMade DEF Types
<1>6. QED  BY <1>1, <1>2, <1>3, <1>4, <1>5, BagMembers

\* The hops of an arrival: the route of its gate for its status.
LEMMA ArrivalFacts ==
  ASSUME Types, NEW e \in Earliest(event_queue), Arrive(e)
  PROVE  LET g == gates[e.destination]
             status == Evaluate(g, e.arrival_time, e.packet.lifeterm)
         IN /\ g \in GateDefs /\ status \in Status /\ g.route[status] \in Seq(Address)
            /\ LoggedAs(e, g, status, TRUE) \in EntryType
            /\ IsABag(event_queue')
            /\ BagToSet(event_queue') = BagToSet(event_queue (-) SetToBag({e}))
                                       \cup BagToSet(Hops(e, g.route[status]))
<1> DEFINE g == gates[e.destination]
           status == Evaluate(g, e.arrival_time, e.packet.lifeterm)
<1>1. g \in GateDefs /\ e \in EventType
  BY PoppedFacts DEF Arrive
<1>2. status \in Status
  BY EvaluateType
<1>3. event_queue' = (event_queue (-) SetToBag({e})) (+) Hops(e, g.route[status])
  BY DEF Arrive
<1> HIDE DEF g, status
<1>4. g.route[status] \in Seq(Address)
  BY <1>1, <1>2, InputsOfRun
<1>5. LoggedAs(e, g, status, TRUE) \in EntryType
  BY <1>1, <1>2 DEF LoggedAs, EntryType, EventType
<1>6. IsABag(Hops(e, g.route[status])) /\ IsABag(event_queue (-) SetToBag({e}))
  BY <1>1, <1>4, HopsFacts, PoppedFacts
<1>7. IsABag(event_queue')
  BY <1>3, <1>6, BagsMade, Zenon
<1>8. BagToSet(event_queue') = BagToSet(event_queue (-) SetToBag({e}))
                             \cup BagToSet(Hops(e, g.route[status]))
  BY <1>3, BagMembers, Zenon
<1>9. QED  BY <1>1, <1>2, <1>4, <1>5, <1>7, <1>8 DEF g, status

\* A step that returns an error takes its event and logs it.
LEMMA ErrorFacts ==
  ASSUME Types, NEW e \in Earliest(event_queue), NoGate(e) \/ Refused(e)
  PROVE  /\ event_queue' = event_queue (-) SetToBag({e})
         /\ \E l \in EntryType :
              /\ execution_log' = Append(execution_log, l)
              /\ l.at = e.destination /\ l.packet = e.packet /\ l.time = e.arrival_time
              /\ ~ l.ok
         /\ UNCHANGED <<control_register, data_register>>
<1>1. e \in EventType /\ gates[e.destination] \in {None} \cup GateDefs
  BY PoppedFacts
<1>2. CASE NoGate(e)
  <2> DEFINE l == LoggedAs(e, None, "NoGate", FALSE)
  <2>1. l \in EntryType /\ l.at = e.destination /\ l.packet = e.packet
        /\ l.time = e.arrival_time /\ ~ l.ok
    BY <1>1 DEF LoggedAs, EntryType, EventType
  <2>2. execution_log' = Append(execution_log, l)
    BY <1>2 DEF NoGate
  <2> HIDE DEF l
  <2>3. QED  BY <1>2, <2>1, <2>2 DEF NoGate
<1>3. CASE Refused(e)
  <2> DEFINE l == LoggedAs(e, gates[e.destination], "OnTime", FALSE)
  <2>1. l \in EntryType /\ l.at = e.destination /\ l.packet = e.packet
        /\ l.time = e.arrival_time /\ ~ l.ok
    BY <1>1 DEF LoggedAs, EntryType, EventType, Status
  <2>2. execution_log' = Append(execution_log, l)
    BY <1>3 DEF Refused
  <2> HIDE DEF l
  <2>3. QED  BY <1>3, <2>1, <2>2 DEF Refused
<1>4. QED  BY <1>2, <1>3

\* The types hold at the start.
LEMMA TypesInit == Init => Types
<1> SUFFICES ASSUME Init PROVE Types
  OBVIOUS
<1>1. current_time \in Nat /\ scheduled \in 0 .. MaxScheduled /\ running \in BOOLEAN
  <2>1. MaxScheduled \in Nat
    BY InputsOfRun, Zenon
  <2>2. current_time = 0 /\ scheduled = 0 /\ running \in BOOLEAN
    BY Zenon DEF Init, New
  <2>3. QED  BY <2>1, <2>2
<1>2. gates \in [Address -> {None} \cup GateDefs]
  BY DEF Init, New
<1>3. IsABag(event_queue) /\ BagToSet(event_queue) \subseteq EventType
  BY BagsMade DEF Init, New
<1>4. /\ execution_log \in Seq(EntryType)
      /\ control_register = None /\ data_register = None
  BY DEF Init, New
<1>5. QED  BY <1>1, <1>2, <1>3, <1>4 DEF Types

\* Every step keeps the types.
LEMMA TypesNext == Types /\ [Next]_vars => Types'
<1> SUFFICES ASSUME Types, [Next]_vars PROVE Types'
  OBVIOUS
<1>1. ASSUME NEW g \in GateDefs, RegisterGate(g)
      PROVE  Types'
  <2>1. gates' \in [Address -> {None} \cup GateDefs]
    BY <1>1 DEF RegisterGate, Types
  <2>2. QED  BY <1>1, <2>1 DEF RegisterGate, Types
<1>2. ASSUME NEW c \in Calls, SchedulePacket(c[1], c[2], c[3])
      PROVE  Types'
  <2> DEFINE e == Event(c[1], c[2], c[3], current_time)
  <2>1. c[1] \in Address /\ c[2] \in Nat /\ c[3] \in Packets
    BY InputsOfRun
  <2>2. e \in EventType
    BY <2>1, EventFacts DEF Types
  <2>3. event_queue' = event_queue (+) SetToBag({e})
    BY <1>2 DEF SchedulePacket
  <2> HIDE DEF e
  <2>4. IsABag(event_queue') /\ BagToSet(event_queue') \subseteq EventType
    <3>1. IsABag(event_queue) /\ BagToSet(event_queue) \subseteq EventType
      BY DEF Types
    <3>2. IsABag(event_queue (+) SetToBag({e}))
      BY <3>1, BagsMade, Zenon
    <3>3. BagToSet(event_queue (+) SetToBag({e})) = BagToSet(event_queue) \cup {e}
      <4>1. /\ BagToSet(SetToBag({e})) = {e}
            /\ BagToSet(event_queue (+) SetToBag({e}))
                 = BagToSet(event_queue) \cup BagToSet(SetToBag({e}))
        BY BagMembers, Zenon
      <4>2. QED  BY <4>1
    <3>4. QED  BY <2>2, <2>3, <3>1, <3>2, <3>3
  <2>5. scheduled' \in 0 .. MaxScheduled
    BY <1>2, InputsOfRun DEF SchedulePacket, Types
  <2>6. QED  BY <1>2, <2>4, <2>5 DEF SchedulePacket, Types
<1>3. ASSUME NEW e \in Earliest(event_queue), current_time' = e.arrival_time,
             UNCHANGED <<gates, scheduled>>, NoGate(e) \/ Refused(e)
      PROVE  Types'
  <2>1. running' = FALSE
    BY <1>3 DEF NoGate, Refused
  <2>2. PICK l \in EntryType : execution_log' = Append(execution_log, l)
    BY <1>3, ErrorFacts
  <2>3. execution_log' \in Seq(EntryType)
    BY <2>2 DEF Types
  <2>4. IsABag(event_queue') /\ BagToSet(event_queue') \subseteq EventType
    BY <1>3, ErrorFacts, PoppedFacts DEF Types
  <2>5. current_time' \in Nat
    BY <1>3, PoppedFacts DEF EventType
  <2>6. UNCHANGED <<control_register, data_register>>
    BY <1>3, ErrorFacts
  <2>7. QED  BY <1>3, <2>1, <2>3, <2>4, <2>5, <2>6 DEF Types, HashesOn
<1>4. ASSUME NEW e \in Earliest(event_queue), current_time' = e.arrival_time,
             UNCHANGED <<gates, scheduled>>, Arrive(e)
      PROVE  Types'
  <2> DEFINE g == gates[e.destination]
             status == Evaluate(g, e.arrival_time, e.packet.lifeterm)
  <2>1. e \in EventType /\ e.packet \in Packets
    BY PoppedFacts DEF EventType
  <2>2. /\ g \in GateDefs /\ status \in Status /\ g.route[status] \in Seq(Address)
        /\ LoggedAs(e, g, status, TRUE) \in EntryType /\ IsABag(event_queue')
        /\ BagToSet(event_queue') = BagToSet(event_queue (-) SetToBag({e}))
                                   \cup BagToSet(Hops(e, g.route[status]))
    BY <1>4, ArrivalFacts
  <2>3. BagToSet(event_queue') \subseteq EventType
    <3> HIDE DEF g, status
    <3> QED  BY <2>1, <2>2, HopsFacts, PoppedFacts DEF Types
  <2>4. execution_log' = Append(execution_log, LoggedAs(e, g, status, TRUE)) /\ UNCHANGED running
    BY <1>4 DEF Arrive
  <2>5. execution_log' \in Seq(EntryType)
    <3> DEFINE l == LoggedAs(e, g, status, TRUE)
    <3>1. l \in EntryType /\ execution_log' = Append(execution_log, l)
      BY <2>2, <2>4
    <3> HIDE DEF l
    <3>2. QED  BY <3>1 DEF Types
  <2>6. /\ control_register' \in {None} \cup HashesOn("A")
        /\ data_register' \in {None} \cup HashesOn("B")
    BY <1>4, <2>1 DEF Arrive, Latch, HashesOn, Types
  <2>7. current_time' \in Nat
    BY <1>4, <2>1 DEF EventType
  <2>8. QED  BY <1>4, <2>2, <2>3, <2>4, <2>5, <2>6, <2>7 DEF Types, HashesOn
<1>5. CASE RunUntilIdle
  BY <1>5 DEF RunUntilIdle, Types, HashesOn
<1>6. CASE RunDone
  BY <1>6 DEF RunDone, Types, HashesOn
<1>7. CASE UNCHANGED vars
  BY <1>7 DEF vars, Types, HashesOn
<1>8. QED  BY <1>1, <1>2, <1>3, <1>4, <1>5, <1>6, <1>7 DEF Next, RunStep, Step

\* Types are an invariant.
THEOREM TypesHold == Spec => []Types
BY TypesInit, TypesNext, PTL DEF Spec

\* The types of the engine's fields are kept by every step; each register holds the
\* hash of a packet of its rail, or nothing.
THEOREM TypeCorrect == Spec => []TypeOK
<1>1. Types => TypeOK
  BY DEF Types, TypeOK, EventType
<1>2. QED  BY <1>1, TypesHold, PTL

-----------------------------------------------------------------------------
(* The clock. *)

\* What is in the queue behind the clock was scheduled behind it.
BehindIsBackdated ==
  \A e \in BagToSet(event_queue) : e.arrival_time < current_time => e.backdated

\* Every step keeps it: the engine pops an event with the earliest time, so that none
\* is behind the clock after a step, and hops lead into the future.
LEMMA ClockNext == Types /\ BehindIsBackdated /\ [Next]_vars => BehindIsBackdated'
<1> SUFFICES ASSUME Types, BehindIsBackdated, [Next]_vars PROVE BehindIsBackdated'
  OBVIOUS
<1>1. CASE UNCHANGED <<current_time, event_queue>>
  BY <1>1 DEF BehindIsBackdated
<1>2. ASSUME NEW c \in Calls, SchedulePacket(c[1], c[2], c[3])
      PROVE  BehindIsBackdated'
  <2> DEFINE e == Event(c[1], c[2], c[3], current_time)
  <2>1. c[1] \in Address /\ c[2] \in Nat /\ c[3] \in Packets
    BY InputsOfRun
  <2>2. e.arrival_time < current_time => e.backdated
    BY <2>1, EventFacts DEF Types
  <2>3. event_queue' = event_queue (+) SetToBag({e}) /\ current_time' = current_time
    BY <1>2 DEF SchedulePacket
  <2> HIDE DEF e
  <2>4. /\ BagToSet(SetToBag({e})) = {e}
        /\ BagToSet(event_queue (+) SetToBag({e}))
             = BagToSet(event_queue) \cup BagToSet(SetToBag({e}))
    BY BagMembers, Zenon
  <2>5. BagToSet(event_queue') = BagToSet(event_queue) \cup {e}
    BY <2>3, <2>4
  <2>6. QED  BY <2>2, <2>3, <2>5 DEF BehindIsBackdated
<1>3. ASSUME NEW e \in Earliest(event_queue), current_time' = e.arrival_time,
             \A f \in BagToSet(event_queue') :
               f \in BagToSet(event_queue) \/ e.arrival_time <= f.arrival_time
      PROVE  BehindIsBackdated'
  <2>1. \A f \in BagToSet(event_queue) : f.arrival_time \in Nat /\ e.arrival_time <= f.arrival_time
    BY PoppedFacts DEF Types, EventType
  <2>2. e.arrival_time \in Nat
    BY PoppedFacts DEF EventType
  <2>3. ASSUME NEW f \in BagToSet(event_queue'), f.arrival_time \in Nat
        PROVE  ~(f.arrival_time < current_time')
    BY <1>3, <2>1, <2>2, <2>3
  <2>4. \A f \in BagToSet(event_queue') : f.arrival_time \in Nat
    BY TypesNext DEF Types, EventType
  <2>5. QED  BY <2>3, <2>4 DEF BehindIsBackdated
<1>4. ASSUME NEW e \in Earliest(event_queue), current_time' = e.arrival_time, NoGate(e) \/ Refused(e)
      PROVE  BehindIsBackdated'
  BY <1>3, <1>4, ErrorFacts, PoppedFacts
<1>5. ASSUME NEW e \in Earliest(event_queue), current_time' = e.arrival_time, Arrive(e)
      PROVE  BehindIsBackdated'
  <2> DEFINE g == gates[e.destination]
             status == Evaluate(g, e.arrival_time, e.packet.lifeterm)
             route == g.route[status]
  <2>1. route \in Seq(Address)
        /\ BagToSet(event_queue') = BagToSet(event_queue (-) SetToBag({e})) \cup BagToSet(Hops(e, route))
    BY <1>5, ArrivalFacts
  <2>2. e \in EventType
    BY PoppedFacts
  <2> HIDE DEF route
  <2>3. e.arrival_time \in Nat /\ e.packet \in Packets
    BY <2>2 DEF EventType
  <2>4. ASSUME NEW f \in BagToSet(Hops(e, route))
        PROVE  e.arrival_time <= f.arrival_time
    <3>1. PICK i \in DOMAIN route :
            f = Event(route[i], e.arrival_time + HopDelay, e.packet, e.arrival_time)
      BY <2>1, <2>2, HopsFacts
    <3>2. route[i] \in Address /\ e.arrival_time + HopDelay \in Nat
      BY <2>1, <2>3 DEF HopDelay
    <3>3. f.arrival_time = e.arrival_time + HopDelay
      BY <2>3, <3>1, <3>2, EventFacts
    <3>4. QED  BY <2>3, <3>3 DEF HopDelay
  <2>5. BagToSet(event_queue (-) SetToBag({e})) \subseteq BagToSet(event_queue)
    BY PoppedFacts
  <2>6. QED  BY <1>3, <1>5, <2>1, <2>4, <2>5
<1>6. CASE RunStep
  BY <1>4, <1>5, <1>6 DEF RunStep, Step
<1>7. QED
  BY <1>1, <1>2, <1>6 DEF Next, RegisterGate, RunUntilIdle, RunDone, vars

\* The clock goes back only to an arrival that was already past when it was scheduled,
\* and the caller alone schedules such arrivals.
THEOREM ClockGoesBackOnlyByTheCaller == Spec => ClockGoesBackOnlyToBackdated
<1> DEFINE A == current_time' < current_time =>
                  \E e \in BagToSet(event_queue) : e.arrival_time = current_time' /\ e.backdated
<1>1. Init => BehindIsBackdated
  BY BagsMade DEF Init, New, BehindIsBackdated
<1>2. Types /\ BehindIsBackdated /\ [Next]_vars => [A]_vars
  <2> SUFFICES ASSUME Types, BehindIsBackdated, Next PROVE A
    OBVIOUS
  <2>1. CASE current_time' = current_time
    BY <2>1 DEF Types
  <2>2. CASE RunStep
    <3>1. PICK e \in Earliest(event_queue) : current_time' = e.arrival_time
      BY <2>2 DEF RunStep, Step
    <3>2. e \in BagToSet(event_queue)
      BY PoppedFacts
    <3>3. QED  BY <3>1, <3>2 DEF BehindIsBackdated
  <2>3. QED
    BY <2>1, <2>2 DEF Next, RegisterGate, SchedulePacket, RunUntilIdle, RunDone
<1>3. QED  BY <1>1, <1>2, ClockNext, TypesHold, PTL DEF Spec, ClockGoesBackOnlyToBackdated

-----------------------------------------------------------------------------
(* Sealed packets. *)

\* The control register holds the hash of the control packet that was on time last.
RegisterIsLatest ==
  LET before == ControlBefore(Len(execution_log) + 1)
  IN control_register = IF before = {} THEN None
                        ELSE execution_log[Max(before)].packet.chain_hash

\* An entry added to the log leaves the earlier ones and what came before them.
LEMMA LogGrows ==
  ASSUME Types, NEW l \in EntryType, execution_log' = Append(execution_log, l),
         NEW n, n = Len(execution_log) + 1
  PROVE  LET accepted == l.ok /\ l.status = "OnTime" /\ l.packet.chain_rail = "A"
         IN /\ n \in Nat \ {0} /\ DOMAIN execution_log = 1 .. (n - 1)
            /\ DOMAIN execution_log' = 1 .. n /\ Len(execution_log') = n
            /\ execution_log'[n] = l
            /\ \A i \in 1 .. (n - 1) : execution_log'[i] = execution_log[i]
            /\ \A i \in 1 .. n : /\ ControlBefore(i) \subseteq 1 .. (i - 1)
                                 /\ ControlBefore(i)' = ControlBefore(i)
            /\ ControlBefore(n + 1)' = ControlBefore(n) \cup (IF accepted THEN {n} ELSE {})
<1> DEFINE accepted == l.ok /\ l.status = "OnTime" /\ l.packet.chain_rail = "A"
<1>1. /\ n \in Nat \ {0} /\ DOMAIN execution_log = 1 .. (n - 1)
      /\ DOMAIN execution_log' = 1 .. n /\ Len(execution_log') = n
      /\ execution_log'[n] = l
      /\ \A i \in 1 .. (n - 1) : execution_log'[i] = execution_log[i]
  BY DEF Types
<1>2. \A i \in 1 .. n : ControlBefore(i)' = ControlBefore(i)
  <2> SUFFICES ASSUME NEW i \in 1 .. n
               PROVE  ControlBefore(i)' = ControlBefore(i)
    OBVIOUS
  <2>1. \A j \in 1 .. (i - 1) : execution_log'[j] = execution_log[j]
    BY <1>1
  <2>2. QED  BY <2>1 DEF ControlBefore, Accepted
<1>3. ControlBefore(n + 1)' = ControlBefore(n) \cup (IF accepted THEN {n} ELSE {})
  <2>1. 1 .. (n + 1 - 1) = (1 .. (n - 1)) \cup {n}
    BY <1>1
  <2>2. /\ execution_log'[n].ok <=> l.ok
        /\ execution_log'[n].status = l.status
        /\ execution_log'[n].packet.chain_rail = l.packet.chain_rail
    BY <1>1, Zenon
  <2>3. \A j \in 1 .. (n - 1) : execution_log'[j] = execution_log[j]
    BY <1>1
  <2> HIDE DEF accepted
  <2>4. ASSUME NEW j
        PROVE  j \in ControlBefore(n + 1)'
               <=> j \in ControlBefore(n) \/ (accepted /\ j = n)
    <3>1. j \in ControlBefore(n + 1)'
          <=> /\ j \in 1 .. (n - 1) \/ j = n
              /\ execution_log'[j].ok /\ execution_log'[j].status = "OnTime"
              /\ execution_log'[j].packet.chain_rail = "A"
      <4>1. j \in 1 .. (n + 1 - 1) <=> j \in 1 .. (n - 1) \/ j = n
        BY <2>1, Zenon
      <4>2. j \in ControlBefore(n + 1)'
            <=> /\ j \in 1 .. (n + 1 - 1)
                /\ execution_log'[j].ok /\ execution_log'[j].status = "OnTime"
                /\ execution_log'[j].packet.chain_rail = "A"
        BY DEF ControlBefore, Accepted
      <4>3. QED  BY <4>1, <4>2, Zenon
    <3>2. j \in ControlBefore(n)
          <=> /\ j \in 1 .. (n - 1)
              /\ execution_log[j].ok /\ execution_log[j].status = "OnTime"
              /\ execution_log[j].packet.chain_rail = "A"
      BY Zenon DEF ControlBefore, Accepted
    <3>3. CASE j = n
      <4>1. n \notin 1 .. (n - 1)
        BY <1>1
      <4>2. QED  BY <2>2, <3>1, <3>2, <3>3, <4>1, Zenon DEF accepted
    <3>4. CASE j # n
      BY <2>3, <3>1, <3>2, <3>4, Zenon
    <3>5. QED  BY <3>3, <3>4
  <2>5. QED  BY <2>4, Zenon
<1>4. \A i \in 1 .. n : ControlBefore(i) \subseteq 1 .. (i - 1)
  BY DEF ControlBefore
<1>5. QED  BY <1>1, <1>2, <1>3, <1>4

\* A step that logs an entry keeps the register with the log, if it latches what is on
\* time and on the control rail, and nothing else.
LEMMA RegisterFollows ==
  ASSUME Types, RegisterIsLatest, NEW l \in EntryType,
         execution_log' = Append(execution_log, l),
         control_register' = IF l.ok /\ l.status = "OnTime" /\ l.packet.chain_rail = "A"
                             THEN l.packet.chain_hash ELSE control_register
  PROVE  RegisterIsLatest'
<1> PICK n : n = Len(execution_log) + 1
  OBVIOUS
<1> DEFINE accepted == l.ok /\ l.status = "OnTime" /\ l.packet.chain_rail = "A"
           before == ControlBefore(n)
           after == before \cup (IF accepted THEN {n} ELSE {})
<1>1. /\ n \in Nat \ {0} /\ Len(execution_log') = n
      /\ execution_log'[n] = l
      /\ \A i \in 1 .. (n - 1) : execution_log'[i] = execution_log[i]
      /\ before \subseteq 1 .. (n - 1)
      /\ ControlBefore(n + 1)' = after
  BY LogGrows
<1>2. RegisterIsLatest' <=> control_register' = IF after = {} THEN None
                                               ELSE execution_log'[Max(after)].packet.chain_hash
  <2>1. (Len(execution_log) + 1)' = n + 1
    BY <1>1
  <2>2. ControlBefore(Len(execution_log) + 1)' = after
    BY <1>1, <2>1 DEF ControlBefore
  <2> HIDE DEF after
  <2>3. QED  BY <2>2 DEF RegisterIsLatest
<1>3. CASE accepted
  <2>1. after = before \cup {n}
    BY <1>3
  <2> HIDE DEF before, after
  <2>2. n \in after /\ after \subseteq Nat /\ \A i \in after : i <= n
    <3>1. \A i \in 1 .. (n - 1) : i \in Nat /\ i <= n
      BY <1>1
    <3>2. n \in Nat /\ n <= n
      BY <1>1
    <3>3. QED  BY <1>1, <2>1, <3>1, <3>2
  <2>3. Max(after) = n /\ after # {}
    BY <2>2, MaxIs
  <2>4. QED  BY <1>1, <1>2, <1>3, <2>3
<1>4. CASE ~accepted
  <2>1. after = before /\ control_register' = control_register
    BY <1>4
  <2>2. control_register = IF before = {} THEN None
                           ELSE execution_log[Max(before)].packet.chain_hash
    BY DEF RegisterIsLatest
  <2> HIDE DEF before, after, accepted
  <2>3. CASE before = {}
    BY <1>2, <2>1, <2>2, <2>3
  <2>4. CASE before # {}
    <3>1. n - 1 \in Nat /\ before \subseteq 0 .. (n - 1)
      BY <1>1
    <3>2. Max(before) \in before
      BY <2>4, <3>1, MaxFacts
    <3>3. execution_log'[Max(before)] = execution_log[Max(before)]
      BY <1>1, <3>2
    <3>4. QED  BY <1>2, <2>1, <2>2, <2>4, <3>3
  <2>5. QED  BY <2>3, <2>4
<1>5. QED  BY <1>3, <1>4

\* What is claimed of one entry of the log.
SealedAt(i) ==
  LET l == execution_log[i]
  IN /\ Accepted(i) /\ ControlBefore(i) # {}
     /\ l.packet.ticket # None /\ l.gate.ticket_secret # None
     => XorHashes(l.packet.ticket, execution_log[Max(ControlBefore(i))].packet.chain_hash)
          = l.gate.ticket_secret

\* An entry keeps what is claimed of it as the log grows.
LEMMA SealedStays ==
  ASSUME Types, NEW l \in EntryType, execution_log' = Append(execution_log, l),
         NEW i \in DOMAIN execution_log, SealedAt(i)
  PROVE  SealedAt(i)'
<1> PICK n : n = Len(execution_log) + 1
  OBVIOUS
<1> DEFINE before == ControlBefore(i)
<1>1. /\ n \in Nat \ {0} /\ i \in 1 .. (n - 1)
      /\ \A j \in 1 .. (n - 1) : execution_log'[j] = execution_log[j]
      /\ before \subseteq 1 .. (i - 1) /\ ControlBefore(i)' = before
  BY LogGrows
<1> HIDE DEF before
<1>2. execution_log'[i] = execution_log[i]
  BY <1>1
<1>3. ASSUME before # {}
      PROVE  execution_log'[Max(before)] = execution_log[Max(before)]
  <2>1. i \in Nat /\ before \subseteq 0 .. i
    BY <1>1
  <2>2. Max(before) \in before
    BY <1>3, <2>1, MaxFacts
  <2>3. 1 .. (i - 1) \subseteq 1 .. (n - 1)
    BY <1>1
  <2>4. QED  BY <1>1, <2>2, <2>3
<1>4. Accepted(i)' <=> Accepted(i)
  BY <1>2, Zenon DEF Accepted
<1>5. QED  BY <1>1, <1>2, <1>3, <1>4, Zenon DEF SealedAt, before

\* Every step keeps both.
LEMMA SealedNext ==
  ASSUME Types, RegisterIsLatest, \A i \in DOMAIN execution_log : SealedAt(i), [Next]_vars
  PROVE  RegisterIsLatest' /\ (\A i \in DOMAIN execution_log : SealedAt(i))'
<1> PICK n : n = Len(execution_log) + 1
  OBVIOUS
<1>1. CASE UNCHANGED <<execution_log, control_register>>
  BY <1>1 DEF RegisterIsLatest, SealedAt, ControlBefore, Accepted
<1>2. ASSUME NEW l \in EntryType, execution_log' = Append(execution_log, l), SealedAt(n)'
      PROVE  (\A i \in DOMAIN execution_log : SealedAt(i))'
  <2>1. \A i \in DOMAIN execution_log' : i \in DOMAIN execution_log \/ i = n
    BY <1>2 DEF Types
  <2>2. ASSUME NEW i \in DOMAIN execution_log PROVE SealedAt(i)'
    BY <1>2, <2>2, SealedStays
  <2>3. ASSUME NEW i \in DOMAIN execution_log' PROVE SealedAt(i)'
    <3>1. CASE i \in DOMAIN execution_log
      BY <2>2, <3>1
    <3>2. CASE i = n
      BY <1>2, <3>2 DEF SealedAt, Accepted, ControlBefore
    <3>3. QED  BY <2>1, <3>1, <3>2
  <2>4. QED  BY <2>3
<1>3. ASSUME NEW e \in Earliest(event_queue), NoGate(e) \/ Refused(e)
      PROVE  RegisterIsLatest' /\ (\A i \in DOMAIN execution_log : SealedAt(i))'
  <2>1. PICK l \in EntryType : execution_log' = Append(execution_log, l) /\ ~ l.ok
    BY <1>3, ErrorFacts
  <2>2. control_register' = control_register
    BY <1>3, ErrorFacts
  <2>3. RegisterIsLatest'
    BY <2>1, <2>2, RegisterFollows
  <2>4. execution_log'[n] = l
    BY <2>1, LogGrows
  <2>5. SealedAt(n)'
    BY <2>1, <2>4 DEF SealedAt, Accepted
  <2>6. QED  BY <1>2, <2>1, <2>3, <2>5
<1>4. ASSUME NEW e \in Earliest(event_queue), Arrive(e)
      PROVE  RegisterIsLatest' /\ (\A i \in DOMAIN execution_log : SealedAt(i))'
  <2> DEFINE g == gates[e.destination]
             status == Evaluate(g, e.arrival_time, e.packet.lifeterm)
             l == LoggedAs(e, g, status, TRUE)
  <2>1. l \in EntryType
    BY <1>4, ArrivalFacts
  <2>2. /\ execution_log' = Append(execution_log, l)
        /\ control_register' = Latch(status = "OnTime", "A", e.packet, control_register)
        /\ status = "OnTime" => Opens(g, e.packet)
    BY <1>4 DEF Arrive
  <2>3. l.ok /\ l.status = status /\ l.packet = e.packet /\ l.gate = g
    BY DEF LoggedAs
  <2> HIDE DEF l, status, g
  <2>4. RegisterIsLatest'
    BY <2>1, <2>2, <2>3, RegisterFollows DEF Latch
  <2>5. /\ execution_log'[n] = l /\ ControlBefore(n)' = ControlBefore(n)
        /\ n \in Nat \ {0} /\ ControlBefore(n) \subseteq 1 .. (n - 1)
        /\ \A j \in 1 .. (n - 1) : execution_log'[j] = execution_log[j]
    BY <2>1, <2>2, LogGrows
  <2>6. ASSUME ControlBefore(n) # {}, status = "OnTime",
               e.packet.ticket # None, g.ticket_secret # None
        PROVE  XorHashes(e.packet.ticket, execution_log'[Max(ControlBefore(n))].packet.chain_hash)
                 = g.ticket_secret
    <3> DEFINE m == Max(ControlBefore(n))
    <3>1. m \in 1 .. (n - 1)
      <4>1. n - 1 \in Nat /\ ControlBefore(n) \subseteq 0 .. (n - 1)
        BY <2>5
      <4>2. QED  BY <2>5, <2>6, <4>1, MaxFacts
    <3>2. control_register = execution_log[m].packet.chain_hash
      BY <2>6 DEF RegisterIsLatest
    <3> HIDE DEF m
    <3>3. execution_log'[m] = execution_log[m] /\ execution_log[m] \in EntryType
      BY <2>5, <3>1 DEF Types
    <3>4. execution_log[m].packet.chain_hash # None
      BY <3>3, InputsOfRun DEF EntryType
    <3>5. XorHashes(e.packet.ticket, control_register) = g.ticket_secret
      BY <2>2, <2>6, <3>2, <3>4 DEF Opens, VerifyAndUnlock
    <3>6. QED  BY <3>2, <3>3, <3>5 DEF m
  <2>7. SealedAt(n)'
    <3>1. SealedAt(n)' <=>
            (/\ Accepted(n)' /\ ControlBefore(n) # {}
             /\ l.packet.ticket # None /\ l.gate.ticket_secret # None
             => XorHashes(l.packet.ticket,
                          execution_log'[Max(ControlBefore(n))].packet.chain_hash)
                  = l.gate.ticket_secret)
      BY <2>5 DEF SealedAt
    <3>2. Accepted(n)' => status = "OnTime"
      BY <2>3, <2>5 DEF Accepted
    <3>3. QED  BY <2>3, <2>6, <3>1, <3>2, Zenon
  <2>8. QED  BY <1>2, <2>1, <2>2, <2>4, <2>7
<1>5. CASE RunStep
  BY <1>3, <1>4, <1>5 DEF RunStep, Step
<1>6. QED
  BY <1>1, <1>5 DEF Next, RegisterGate, SchedulePacket, RunUntilIdle, RunDone, vars

\* A ticket opens a gate with a secret only against the control packet that was on time
\* last, since the register holds the hash of that packet and of no other.
THEOREM TicketOpensForItsControl == Spec => []SealedPacketFollowsItsControl
<1> DEFINE Sealed == \A i \in DOMAIN execution_log : SealedAt(i)
<1>1. Init => RegisterIsLatest /\ Sealed
  BY DEF Init, New, RegisterIsLatest, ControlBefore
<1>2. Types /\ RegisterIsLatest /\ Sealed /\ [Next]_vars => RegisterIsLatest' /\ Sealed'
  BY SealedNext
<1>3. Sealed => SealedPacketFollowsItsControl
  BY DEF SealedAt, SealedPacketFollowsItsControl
<1>4. QED  BY <1>1, <1>2, <1>3, TypesHold, PTL DEF Spec

-----------------------------------------------------------------------------
(* Hops. *)

\* An event, or an entry, is the hop to h of the arrival that entry l logs.
IsHop(l, h, dest, p, t) == dest = h /\ p = l.packet /\ t = l.time + HopDelay

Queued(l, h, queue) ==
  \E e \in BagToSet(queue) : IsHop(l, h, e.destination, e.packet, e.arrival_time)

Dealt(l, h, i, log) ==
  \E j \in (i + 1) .. Len(log) : IsHop(l, h, log[j].at, log[j].packet, log[j].time)

\* A log that grows holds what it held.
LEMMA DealtStays ==
  ASSUME Types, NEW k \in EntryType, NEW log, log = Append(execution_log, k),
         NEW i \in DOMAIN execution_log, NEW l, NEW h
  PROVE  /\ log[i] = execution_log[i]
         /\ Dealt(l, h, i, execution_log) => Dealt(l, h, i, log)
         /\ IsHop(l, h, k.at, k.packet, k.time) => Dealt(l, h, i, log)
<1>1. /\ Len(log) = Len(execution_log) + 1 /\ log[Len(execution_log) + 1] = k
      /\ Len(execution_log) \in Nat /\ i \in 1 .. Len(execution_log)
      /\ \A j \in 1 .. Len(execution_log) : log[j] = execution_log[j]
  BY DEF Types
<1>2. ASSUME Dealt(l, h, i, execution_log)
      PROVE  Dealt(l, h, i, log)
  <2>1. PICK j \in (i + 1) .. Len(execution_log) :
          IsHop(l, h, execution_log[j].at, execution_log[j].packet, execution_log[j].time)
    BY <1>2 DEF Dealt
  <2>2. j \in (i + 1) .. Len(log) /\ log[j] = execution_log[j]
    BY <1>1
  <2>3. QED  BY <2>1, <2>2 DEF Dealt
<1>3. ASSUME IsHop(l, h, k.at, k.packet, k.time)
      PROVE  Dealt(l, h, i, log)
  <2>1. Len(execution_log) + 1 \in (i + 1) .. Len(log)
    BY <1>1
  <2>2. QED  BY <1>1, <1>3, <2>1 DEF Dealt
<1>4. QED  BY <1>1, <1>2, <1>3

\* Every step keeps the account: an event leaves the queue only as its entry is logged,
\* and an arrival that is logged leaves an event for each hop of its route.
LEMMA AccountNext ==
  ASSUME Types, EveryHopIsAccountedFor, [Next]_vars
  PROVE  EveryHopIsAccountedFor'
<1> DEFINE Accounted(i, log, queue) ==
             \A h \in Range(log[i].gate.route[log[i].status]) :
               Queued(log[i], h, queue) \/ Dealt(log[i], h, i, log)
<1>1. EveryHopIsAccountedFor <=>
        \A i \in DOMAIN execution_log :
          execution_log[i].ok => Accounted(i, execution_log, event_queue)
  BY DEF EveryHopIsAccountedFor, Queued, Dealt, IsHop
<1>2. EveryHopIsAccountedFor' <=>
        \A i \in DOMAIN execution_log' :
          execution_log'[i].ok => Accounted(i, execution_log', event_queue')
  BY DEF EveryHopIsAccountedFor, Queued, Dealt, IsHop
<1>3. CASE UNCHANGED <<execution_log, event_queue>>
  BY <1>1, <1>2, <1>3
<1>4. ASSUME NEW c \in Calls, SchedulePacket(c[1], c[2], c[3])
      PROVE  EveryHopIsAccountedFor'
  <2> DEFINE e == Event(c[1], c[2], c[3], current_time)
  <2>1. event_queue' = event_queue (+) SetToBag({e}) /\ execution_log' = execution_log
    BY <1>4 DEF SchedulePacket
  <2> HIDE DEF e
  <2>2. BagToSet(event_queue (+) SetToBag({e}))
          = BagToSet(event_queue) \cup BagToSet(SetToBag({e}))
    BY BagMembers, Zenon
  <2>3. BagToSet(event_queue) \subseteq BagToSet(event_queue')
    BY <2>1, <2>2
  <2>4. \A l, h : Queued(l, h, event_queue) => Queued(l, h, event_queue')
    BY <2>3 DEF Queued
  <2>5. QED  BY <1>1, <1>2, <2>1, <2>4
<1>5. ASSUME NEW e \in Earliest(event_queue), NEW k \in EntryType,
             execution_log' = Append(execution_log, k),
             k.at = e.destination, k.packet = e.packet, k.time = e.arrival_time,
             BagToSet(event_queue (-) SetToBag({e})) \subseteq BagToSet(event_queue'),
             k.ok => \A h \in Range(k.gate.route[k.status]) : Queued(k, h, event_queue')
      PROVE  EveryHopIsAccountedFor'
  <2>1. ASSUME NEW i \in DOMAIN execution_log, execution_log'[i].ok
        PROVE  Accounted(i, execution_log', event_queue')
    <3> DEFINE l == execution_log[i]
    <3>1. execution_log'[i] = l
      BY <1>5, DealtStays
    <3>2. l.ok
      BY <2>1, <3>1, Zenon
    <3> SUFFICES ASSUME NEW h \in Range(l.gate.route[l.status])
                 PROVE  Queued(l, h, event_queue') \/ Dealt(l, h, i, execution_log')
      BY <3>1
    <3>3. Queued(l, h, event_queue) \/ Dealt(l, h, i, execution_log)
      BY <1>1, <3>2
    <3> HIDE DEF l
    <3>4. CASE Dealt(l, h, i, execution_log)
      BY <1>5, <3>4, DealtStays
    <3>5. CASE Queued(l, h, event_queue)
      <4>1. PICK f \in BagToSet(event_queue) :
              IsHop(l, h, f.destination, f.packet, f.arrival_time)
        BY <3>5 DEF Queued
      <4>2. CASE f = e
        <5>1. IsHop(l, h, k.at, k.packet, k.time)
          BY <1>5, <4>1, <4>2
        <5>2. QED  BY <1>5, <5>1, DealtStays
      <4>3. CASE f # e
        <5>1. f \in BagToSet(event_queue')
          BY <1>5, <4>3, PoppedFacts
        <5>2. QED  BY <4>1, <5>1 DEF Queued
      <4>4. QED  BY <4>2, <4>3
    <3>6. QED  BY <3>3, <3>4, <3>5
  <2>2. PICK n : n = Len(execution_log) + 1
    OBVIOUS
  <2>3. execution_log'[n] = k /\ \A i \in DOMAIN execution_log' : i \in DOMAIN execution_log \/ i = n
    BY <1>5, <2>2 DEF Types
  <2>4. ASSUME execution_log'[n].ok
        PROVE  Accounted(n, execution_log', event_queue')
    <3>1. k.ok
      BY <2>3, <2>4, Zenon
    <3>2. \A h \in Range(k.gate.route[k.status]) : Queued(k, h, event_queue')
      BY <1>5, <3>1
    <3>3. QED  BY <2>3, <3>2
  <2>5. QED
    <3> HIDE DEF Accounted
    <3>1. ASSUME NEW i \in DOMAIN execution_log', execution_log'[i].ok
          PROVE  Accounted(i, execution_log', event_queue')
      <4>1. CASE i \in DOMAIN execution_log
        BY <2>1, <3>1, <4>1
      <4>2. CASE i = n
        BY <2>4, <3>1, <4>2, Zenon
      <4>3. QED  BY <2>3, <4>1, <4>2
    <3>2. QED  BY <1>2, <3>1, Zenon
<1>6. ASSUME NEW e \in Earliest(event_queue), NoGate(e) \/ Refused(e)
      PROVE  EveryHopIsAccountedFor'
  <2>1. PICK k \in EntryType : /\ execution_log' = Append(execution_log, k)
                              /\ k.at = e.destination /\ k.packet = e.packet
                              /\ k.time = e.arrival_time /\ ~ k.ok
    BY <1>6, ErrorFacts
  <2>2. event_queue' = event_queue (-) SetToBag({e})
    BY <1>6, ErrorFacts
  <2>3. BagToSet(event_queue (-) SetToBag({e})) \subseteq BagToSet(event_queue')
    BY <2>2
  <2>4. k.ok => \A h \in Range(k.gate.route[k.status]) : Queued(k, h, event_queue')
    BY <2>1
  <2>5. QED  BY <1>5, <2>1, <2>3, <2>4
<1>7. ASSUME NEW e \in Earliest(event_queue), Arrive(e)
      PROVE  EveryHopIsAccountedFor'
  <2> DEFINE g == gates[e.destination]
             status == Evaluate(g, e.arrival_time, e.packet.lifeterm)
             route == g.route[status]
             k == LoggedAs(e, g, status, TRUE)
  <2>1. /\ route \in Seq(Address) /\ k \in EntryType
        /\ BagToSet(event_queue') = BagToSet(event_queue (-) SetToBag({e})) \cup BagToSet(Hops(e, route))
    BY <1>7, ArrivalFacts
  <2>2. execution_log' = Append(execution_log, k)
    BY <1>7 DEF Arrive
  <2>3. /\ k.at = e.destination /\ k.packet = e.packet /\ k.time = e.arrival_time
        /\ k.gate.route[k.status] = route
    BY DEF LoggedAs
  <2>4. e \in EventType
    BY PoppedFacts
  <2>5. e.arrival_time \in Nat /\ e.packet \in Packets /\ e.arrival_time + HopDelay \in Nat
    BY <2>4 DEF EventType, HopDelay
  <2> HIDE DEF k, route
  <2>6. ASSUME NEW h \in Range(route)
        PROVE  Queued(k, h, event_queue')
    <3>1. PICK i \in DOMAIN route : route[i] = h
      BY DEF Range
    <3> DEFINE f == Event(route[i], e.arrival_time + HopDelay, e.packet, e.arrival_time)
    <3>2. f \in BagToSet(Hops(e, route))
      BY <2>1, <2>4, HopsFacts
    <3>3. route[i] \in Address
      BY <2>1
    <3>4. f.arrival_time = e.arrival_time + HopDelay /\ f.destination = h /\ f.packet = e.packet
      BY <2>5, <3>1, <3>3, EventFacts
    <3> HIDE DEF f
    <3>5. QED  BY <2>1, <2>3, <3>2, <3>4 DEF Queued, IsHop
  <2>7. BagToSet(event_queue (-) SetToBag({e})) \subseteq BagToSet(event_queue')
    BY <2>1
  <2>8. QED  BY <1>5, <2>1, <2>2, <2>3, <2>6, <2>7
<1>8. CASE RunStep
  BY <1>6, <1>7, <1>8 DEF RunStep, Step
<1>9. QED
  BY <1>3, <1>4, <1>8 DEF Next, RegisterGate, RunUntilIdle, RunDone, vars

\* Nothing that passed a gate is lost on the way to the next: each hop of its route is
\* in the queue ten ticks on, or a later step has dealt with it.
THEOREM NoHopIsLost == Spec => []EveryHopIsAccountedFor
<1>1. Init => EveryHopIsAccountedFor
  BY DEF Init, New, EveryHopIsAccountedFor
<1>2. Types /\ EveryHopIsAccountedFor /\ [Next]_vars => EveryHopIsAccountedFor'
  BY AccountNext
<1>3. QED  BY <1>1, <1>2, TypesHold, PTL DEF Spec
=============================================================================
