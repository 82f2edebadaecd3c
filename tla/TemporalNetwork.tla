-------------------------- MODULE TemporalNetwork --------------------------
(***************************************************************************)
(* The temporal packet network of binetic-protocol: a discrete-event       *)
(* engine (engine.rs) whose clock is the arrival time of the event it      *)
(* popped last, gates with a time window and a route for each outcome      *)
(* (gate.rs, primitives.rs), and packets on two rails, a control rail A    *)
(* and a data rail B, whose tickets are sealed with a control packet's     *)
(* hash (packet.rs, crypto.rs).                                            *)
(*                                                                         *)
(* The engine is owned by one caller, who registers gates, schedules       *)
(* packets, and runs the engine until its queue is empty or a step fails.  *)
(* Times are exact naturals (u64 in the code, which the bounds of a run    *)
(* keep far away).  SHA-256 is taken to be injective, so a hash is the     *)
(* tuple it digests, and since `xor_hashes` is a sum without carries, a    *)
(* 32-byte value is the set of the hashes and secrets summed into it.      *)
(***************************************************************************)
EXTENDS Naturals, Sequences, FiniteSets, Bags, FiniteSetsExt, Functions

CONSTANTS Address,        \* gate addresses
          GateDefs,       \* the gates the caller may register
          Packets,        \* the packets there are
          Calls,          \* what it may schedule: <<gate, arrival time, packet>>
          None,           \* `Option::None`
          MaxScheduled    \* bound: packets the caller schedules

Status == {"Early", "OnTime", "Late", "Missed"}

ASSUME InputsOfRun ==
  /\ Calls \subseteq Address \X Nat \X Packets /\ MaxScheduled \in Nat
  /\ \A g \in GateDefs : g # None /\ \A s \in Status : g.route[s] \in Seq(Address)
  /\ \A p \in Packets : p.chain_hash # None

HopDelay == 10            \* engine.rs: `self.current_time + 10`

(***************************************************************************)
(* Hashes.                                                                 *)
(***************************************************************************)
XorHashes(a, b) == (a \ b) \cup (b \ a)

\* `Packet::new`: the chain hash covers neither the life term nor the ticket.
NewPacket(chain_id, rail, position, lifeterm, prev, payload) ==
  [chain_rail |-> rail, position |-> position, lifeterm |-> lifeterm,
   chain_hash |-> {<<chain_id, rail, position, prev, payload>>},
   ticket     |-> None]

WithTicket(p, ticket) == [p EXCEPT !.ticket = ticket]

(***************************************************************************)
(* Gates.                                                                  *)
(***************************************************************************)
\* `TemporalWindow::new`'s assertion is the caller's obligation.
NewGate(addr, t_min, t_max, on_time, on_miss) ==
  [address |-> addr, t_min |-> t_min, t_max |-> t_max,
   route   |-> [s \in Status |-> IF s = "OnTime" THEN on_time ELSE on_miss],
   ticket_secret |-> None]

GateWithTicket(g, secret) == [g EXCEPT !.ticket_secret = secret]

\* `TemporalWindow::evaluate`: the life term is looked at first.
Evaluate(g, arrival, lifeterm) ==
  IF arrival > lifeterm THEN "Missed"
  ELSE IF arrival < g.t_min THEN "Early"
  ELSE IF arrival <= g.t_max THEN "OnTime" ELSE "Late"

\* `verify_and_unlock`: a gate without a secret opens for every ticket.
VerifyAndUnlock(g, ticket, control) ==
  g.ticket_secret # None => XorHashes(ticket, control) = g.ticket_secret

(***************************************************************************)
(* The engine.  `execution_log` is the code's log, an entry a record       *)
(* instead of a line of text, with the gate as it was and whether the step *)
(* returned Ok; a step that finds no gate has an entry here too.  That an  *)
(* event was `backdated`, scheduled behind the clock, is not kept there.   *)
(***************************************************************************)
VARIABLES
  current_time, gates, event_queue, control_register, data_register,
  execution_log,
  running,         \* run_until_idle has not returned
  scheduled        \* packets the caller has scheduled

vars == <<current_time, gates, event_queue, control_register, data_register,
          execution_log, running, scheduled>>

Event(dest, at, p, clock) ==
  [arrival_time |-> at, destination |-> dest, packet |-> p,
   backdated |-> at < clock]

New ==
  /\ current_time = 0
  /\ gates = [a \in Address |-> None]
  /\ event_queue = EmptyBag
  /\ control_register = None /\ data_register = None
  /\ execution_log = <<>>

Init == New /\ running = FALSE /\ scheduled = 0

(***************************************************************************)
(* Calls that are possible while no run is under way (`&mut self`).        *)
(***************************************************************************)
RegisterGate(g) ==
  /\ ~running /\ gates[g.address] # g
  /\ gates' = [gates EXCEPT ![g.address] = g]
  /\ UNCHANGED <<current_time, event_queue, control_register, data_register,
                 execution_log, running, scheduled>>

\* Any arrival time is accepted, one before the clock too.
SchedulePacket(dest, at, p) ==
  /\ ~running /\ scheduled < MaxScheduled
  /\ scheduled' = scheduled + 1
  /\ event_queue' =
       event_queue (+) SetToBag({Event(dest, at, p, current_time)})
  /\ UNCHANGED <<current_time, gates, control_register, data_register,
                 execution_log, running>>

RunUntilIdle ==
  /\ ~running /\ event_queue # EmptyBag
  /\ running' = TRUE
  /\ UNCHANGED <<current_time, gates, event_queue, control_register,
                 data_register, execution_log, scheduled>>

(***************************************************************************)
(* One step.  The heap orders events by arrival time alone, so among those *)
(* with the earliest time any may be popped.                               *)
(***************************************************************************)
LatestFirst(q) ==        \* mutant: `cmp` of the times not reversed
  {e \in BagToSet(q) : \A f \in BagToSet(q) : f.arrival_time <= e.arrival_time}

Earliest(q) ==
  {e \in BagToSet(q) : \A f \in BagToSet(q) : e.arrival_time <= f.arrival_time}

OpensByData(g, p) ==     \* mutant: unlocked against the data rail's hash
  p.ticket # None /\ data_register # None
    => VerifyAndUnlock(g, p.ticket, data_register)

\* The clause at engine.rs:95-101; without a ticket, or before any control
\* packet was on time, nothing is checked.
Opens(g, p) ==
  p.ticket # None /\ control_register # None
    => VerifyAndUnlock(g, p.ticket, control_register)

\* The register of a rail takes the hash of each packet on it that is on time.
Latch(onTime, rail, p, register) ==
  IF onTime /\ p.chain_rail = rail THEN p.chain_hash ELSE register

LoggedAs(e, g, status, ok) ==
  [packet |-> e.packet, at |-> e.destination, gate |-> g, status |-> status,
   time |-> e.arrival_time, ok |-> ok]

HopsButLast(e, route) ==          \* mutant: the last hop of a longer route is lost
  LET r == SubSeq(route, 1, IF Len(route) > 1 THEN Len(route) - 1 ELSE Len(route))
  IN  SetToBag({Event(r[i], e.arrival_time + HopDelay, e.packet, e.arrival_time)
                  : i \in DOMAIN r})

\* The events a step schedules, one for each hop of the route, whatever the
\* status: a packet past its life term travels on as well.
Hops(e, route) ==
  [x \in {Event(route[i], e.arrival_time + HopDelay, e.packet, e.arrival_time)
             : i \in DOMAIN route} |->
     Cardinality({i \in DOMAIN route : route[i] = x.destination})]

NoGateRetried(e) ==               \* mutant: looked at, kept in the queue, tried again
  /\ gates[e.destination] = None
  /\ UNCHANGED <<running, event_queue, control_register, data_register,
                 execution_log>>

\* `gates.get(..).ok_or(..)?`: the event is gone, the clock has moved.
NoGate(e) ==
  /\ gates[e.destination] = None
  /\ running' = FALSE
  /\ event_queue' = event_queue (-) SetToBag({e})
  /\ execution_log' = Append(execution_log, LoggedAs(e, None, "NoGate", FALSE))
  /\ UNCHANGED <<control_register, data_register>>

\* `Err(TicketUnlockFailed)`: logged as on time, no register set, no hop taken.
Refused(e) ==
  LET g == gates[e.destination] IN
  /\ g # None
  /\ Evaluate(g, e.arrival_time, e.packet.lifeterm) = "OnTime"
  /\ ~Opens(g, e.packet)
  /\ running' = FALSE
  /\ event_queue' = event_queue (-) SetToBag({e})
  /\ execution_log' = Append(execution_log, LoggedAs(e, g, "OnTime", FALSE))
  /\ UNCHANGED <<control_register, data_register>>

Arrive(e) ==
  LET g == gates[e.destination] IN
  /\ g # None
  /\ LET status == Evaluate(g, e.arrival_time, e.packet.lifeterm)
         onTime == status = "OnTime"
     IN /\ onTime => Opens(g, e.packet)
        /\ control_register' = Latch(onTime, "A", e.packet, control_register)
        /\ data_register' = Latch(onTime, "B", e.packet, data_register)
        /\ execution_log' = Append(execution_log, LoggedAs(e, g, status, TRUE))
        /\ event_queue' =
             (event_queue (-) SetToBag({e})) (+) Hops(e, g.route[status])
  /\ UNCHANGED running

Step ==
  \E e \in Earliest(event_queue) :
    /\ current_time' = e.arrival_time
    /\ NoGate(e) \/ Refused(e) \/ Arrive(e)
    /\ UNCHANGED <<gates, scheduled>>

RunStep == running /\ Step

\* `step` found the queue empty: `Ok(steps)`.
RunDone ==
  /\ running /\ event_queue = EmptyBag
  /\ running' = FALSE
  /\ UNCHANGED <<current_time, gates, event_queue, control_register,
                 data_register, execution_log, scheduled>>

Next ==
  \/ \E g \in GateDefs : RegisterGate(g)
  \/ \E c \in Calls : SchedulePacket(c[1], c[2], c[3])
  \/ RunUntilIdle
  \/ RunStep
  \/ RunDone

\* The loop of run_until_idle does nothing but step.
Spec == Init /\ [][Next]_vars /\ WF_vars(RunStep) /\ WF_vars(RunDone)

(***************************************************************************)
(* Properties.                                                             *)
(***************************************************************************)
HashesOn(rail) == {p.chain_hash : p \in {q \in Packets : q.chain_rail = rail}}

\* Type invariant of the engine's fields (engine.rs:46-53).
TypeOK ==
  /\ current_time \in Nat /\ scheduled \in 0..MaxScheduled
  /\ running \in BOOLEAN
  /\ gates \in [Address -> {None} \cup GateDefs]
  /\ IsABag(event_queue)
  /\ \A e \in BagToSet(event_queue) :
       e.destination \in Address /\ e.packet \in Packets /\ e.arrival_time \in Nat
  /\ control_register \in {None} \cup HashesOn("A")
  /\ data_register \in {None} \cup HashesOn("B")

Accepted(i) == execution_log[i].ok /\ execution_log[i].status = "OnTime"

ControlBefore(i) ==
  {j \in 1..(i - 1) : Accepted(j) /\ execution_log[j].packet.chain_rail = "A"}

\* A ticket passes a gate with a secret only against the control packet that
\* was on time last, at whatever gate and of whatever chain: once any control
\* packet has been, a ticket sealed for another one does not open the gate.
SealedPacketFollowsItsControl ==
  \A i \in DOMAIN execution_log :
    LET l == execution_log[i] IN
    /\ Accepted(i) /\ ControlBefore(i) # {}
    /\ l.packet.ticket # None /\ l.gate.ticket_secret # None
    => XorHashes(l.packet.ticket,
                 execution_log[Max(ControlBefore(i))].packet.chain_hash)
         = l.gate.ticket_secret

\* Nothing that passed a gate is lost on the way to the next: for each arrival
\* whose step returned Ok and each hop of the route it took, the event is in
\* the queue or a later step dealt with it, ten ticks on, be it with an error.
EveryHopIsAccountedFor ==
  \A i \in {n \in DOMAIN execution_log : execution_log[n].ok} :
    LET l == execution_log[i]
        Same(dest, p, t, h) == dest = h /\ p = l.packet /\ t = l.time + HopDelay
    IN \A h \in Range(l.gate.route[l.status]) :
         \/ \E e \in BagToSet(event_queue) :
              Same(e.destination, e.packet, e.arrival_time, h)
         \/ \E j \in (i + 1)..Len(execution_log) :
              LET k == execution_log[j] IN Same(k.at, k.packet, k.time, h)

\* The clock, which is set from the event and never compared with it, goes
\* back only to an arrival that was already past when it was scheduled.
ClockGoesBackOnlyToBackdated ==
  [][current_time' < current_time =>
       \E e \in BagToSet(event_queue) :
         e.arrival_time = current_time' /\ e.backdated]_vars

\* With routes that have no cycle run_until_idle returns: every step takes an
\* event off the queue and hops lead further down.
RunReturns == running ~> ~running
=============================================================================
