------------------------------ MODULE Rotation ------------------------------
(***************************************************************************)
(* RotationScheduler (binetic-core/src/rotation.rs) over the tiers of      *)
(* tiers.rs, and the calls of fabric.rs that take its lock.                *)
(*                                                                         *)
(* A period is whole milliseconds, as the code makes it; the time a caller *)
(* advances by is finer, in ticks, and `as_millis` truncates it. A phase   *)
(* is counted in 1/Unit of a cycle and is exact where the code rounds an   *)
(* f64; Inf and NaN are its other values.                                  *)
(* `advance_rotation` holds the scheduler's lock from its first line to    *)
(* its last and triggers the completed layers in HashMap order. Of the two *)
(* echo propagators only the number of echoes waiting is kept. The 10th    *)
(* and 100th remainders reported as prefetches and movements are           *)
(* placeholders of the code: prefetches are counted, movements are not.    *)
(***************************************************************************)
EXTENDS Integers, FiniteSets

CONSTANTS
  Threads,
  Free,           \* nobody holds the scheduler's lock
  Tiers,          \* the configured tiers: a sequence of [id, min, max]
  Policies,       \* RotationPolicy values
  Elapsed,        \* the durations callers advance by, in ticks
  Ticks,          \* ticks in a millisecond
  Unit,           \* one full cycle, a multiple of every period
  U64,            \* u64::MAX in milliseconds
  PrefetchAbove,  \* 10: only higher layers prefetch
  Inf, NaN,       \* the f64 values that are not numbers of cycles
  MaxWaiting,     \* bound: echoes waiting in a propagator
  MaxCalls        \* bound: calls in a behaviour

VARIABLES
  policy,         \* RotationPolicy
  layers,         \* HashMap<u16, LayerRotationState>
  energy,         \* EnergyState, a battery level by its class
  thermal,        \* ThermalState
  holder,         \* who holds the scheduler's lock inside advance_rotation
  completed,      \* advance_rotation: completed layers still to trigger
  results,        \* advance_rotation: what its results add to FabricStats
  stats,          \* total_rotations, total_echoes_processed, total_prefetches
  waiting,        \* echoes in the fabric's and in the scheduler's propagator
  calls,          \* number of calls begun
  earned,         \* history: the phase a layer's time is worth, in 1/(Ticks * Unit)
  slack,          \* history: the ticks short of a millisecond, one phase for each advance
  outrun          \* history: layers advanced by a whole period or more at once

vars == <<policy, layers, energy, thermal, holder, completed, results, stats,
          waiting, calls, earned, slack, outrun>>
histories == <<earned, slack, outrun>>

TierIds == {"HOT", "WARM", "GPU", "COLD", "REMOTE"}
Tier == [id : TierIds, min : Nat, max : Nat]
RotationPolicy == [multiplier : (Nat \ {0}) \X (Nat \ {0}),
                   energy_aware : BOOLEAN, batch : BOOLEAN, prefetch : BOOLEAN]
EnergyState == {"low", "medium", "okay", "plugged", "unknown"}
ThermalState == {"hot", "warm", "cool", "unknown"}
Phase == Nat \cup {Inf, NaN}

ASSUME RotationConstants ==
  /\ Free \notin Threads
  /\ DOMAIN Tiers \subseteq Nat /\ IsFiniteSet(DOMAIN Tiers)
  /\ \A i \in DOMAIN Tiers : Tiers[i] \in Tier
  /\ Policies \subseteq RotationPolicy
  /\ Elapsed \subseteq Nat
  /\ Ticks \in Nat \ {0} /\ Unit \in Nat \ {0} /\ U64 \in Nat /\ PrefetchAbove \in Nat
  /\ Inf \notin Nat /\ NaN \notin Nat /\ Inf # NaN
  /\ MaxWaiting \in Nat /\ MaxCalls \in Nat

-----------------------------------------------------------------------------
(* Tiers and base periods. *)

ContainsLayer(tier, l) == tier.min <= l /\ l <= tier.max

\* all_tiers with their ranges: the layers that rotate.
Layers == UNION {Tiers[i].min .. Tiers[i].max : i \in DOMAIN Tiers}

\* Powers of positive numbers are positive: arithmetic that the provers lack.
ASSUME RotationPowers ==
  \A p \in Policies, l \in Layers : {p.multiplier[1] ^ l, p.multiplier[2] ^ l} \subseteq Nat \ {0}

\* The first tier in configuration order wins, in tier_for_layer and in `new`.
TierForLayer(l) ==
  Tiers[CHOOSE i \in DOMAIN Tiers :
          /\ ContainsLayer(Tiers[i], l)
          /\ \A j \in DOMAIN Tiers : ContainsLayer(Tiers[j], l) => i <= j]

BaseMs == [HOT |-> 1, WARM |-> 16, GPU |-> 8, COLD |-> 256, REMOTE |-> 1000]

\* `x as u64` of a positive f64: truncated and saturated.
AsMillis(num, den) == IF num \div den > U64 THEN U64 ELSE num \div den

BasePeriod(p, l) == AsMillis(BaseMs[TierForLayer(l).id] * p.multiplier[1] ^ l,
                             p.multiplier[2] ^ l)

EnergyFactor(e) == CASE e = "low" -> <<4, 1>> [] e = "medium" -> <<2, 1>>
                     [] e = "plugged" -> <<1, 2>> [] OTHER -> <<1, 1>>
ThermalFactor(t) == CASE t = "hot" -> <<3, 1>> [] t = "warm" -> <<3, 2>>
                      [] OTHER -> <<1, 1>>

Scaled(ms, factor) == AsMillis(ms * factor[1], factor[2])

\* Increments are exact: each period a layer can have divides the cycle.
ASSUME RotationUnit ==
  \A p \in Policies, l \in Layers :
    \A factor \in {EnergyFactor(e) : e \in EnergyState} \cup {ThermalFactor(t) : t \in ThermalState} :
      LET period == Scaled(BasePeriod(p, l), factor) IN period = 0 \/ Unit % period = 0

-----------------------------------------------------------------------------
(* Phase arithmetic, as f64 does it. *)

\* Duration::as_millis: whole milliseconds, the rest is dropped.
Millis(e) == e \div Ticks

\* The phase of one millisecond.
Speed(period) == IF period = 0 THEN 0 ELSE Unit \div period

Plus(x, y) == IF NaN \in {x, y} THEN NaN ELSE IF Inf \in {x, y} THEN Inf ELSE x + y

\* elapsed / period: 0/0 is NaN and n/0 is infinite.
Increment(e, period) ==
  IF period # 0 THEN Millis(e) * Speed(period) ELSE IF Millis(e) = 0 THEN NaN ELSE Inf

\* Mutant of CycleDone: half a cycle is enough.
CycleDoneEarly(x) == x = Inf \/ (x \in Nat /\ 2 * x >= Unit)

\* Mutant of CycleDone: a phase of exactly one cycle is not done.
CycleDoneLate(x) == x = Inf \/ (x \in Nat /\ x > Unit)

\* phase >= 1.0: never for NaN, always for infinity.
CycleDone(x) == x = Inf \/ (x \in Nat /\ x >= Unit)
LessOne(x) == IF x = Inf THEN Inf ELSE x - Unit

\* Mutant of AdvanceLayer: a completed cycle clears the phase.
AdvanceLayerToZero(s, e) ==
  LET x == Plus(s.phase, Increment(e, s.period))
  IN IF CycleDone(x)
       THEN [s EXCEPT !.phase = 0, !.rotation_count = @ + 1, !.access_count = 0]
       ELSE [s EXCEPT !.phase = x, !.access_count = 0]

\* At most one cycle is taken off in one call.
AdvanceLayer(s, e) ==
  LET x == Plus(s.phase, Increment(e, s.period))
  IN IF CycleDone(x)
       THEN [s EXCEPT !.phase = LessOne(x), !.rotation_count = @ + 1, !.access_count = 0]
       ELSE [s EXCEPT !.phase = x, !.access_count = 0]

-----------------------------------------------------------------------------
(* The operations. *)

Init ==
  /\ policy \in Policies
  /\ layers = [l \in Layers |->
                 LET base == BasePeriod(policy, l)
                 IN [phase |-> 0, period |-> base, base_period |-> base,
                     rotation_count |-> 0, access_count |-> 0]]
  /\ energy = "unknown" /\ thermal = "unknown"
  /\ holder = Free /\ completed = {}
  /\ results = [rotations |-> 0, echoes |-> 0, prefetches |-> 0]
  /\ stats = [rotations |-> 0, echoes |-> 0, prefetches |-> 0]
  /\ waiting = [fabric |-> 0, scheduler |-> 0]
  /\ calls = 0
  /\ earned = [l \in Layers |-> 0] /\ slack = [l \in Layers |-> 0] /\ outrun = {}

\* A call that takes the scheduler's lock.
Begin == holder = Free /\ calls < MaxCalls /\ calls' = calls + 1

SetPeriods(factor) ==
  layers' = IF policy.energy_aware
              THEN [l \in Layers |-> [layers[l] EXCEPT
                                        !.period = Scaled(layers[l].base_period, factor)]]
              ELSE layers

\* Mutant of SetEnergyState: the factor is applied to the current period.
SetEnergyStateCompounding(e) ==
  /\ Begin
  /\ energy' = e
  /\ layers' = [l \in Layers |-> [layers[l] EXCEPT
                                    !.period = Scaled(@, EnergyFactor(e))]]
  /\ UNCHANGED <<policy, thermal, holder, completed, results, stats, waiting, histories>>

SetEnergyState(e) ==
  /\ Begin
  /\ energy' = e
  /\ SetPeriods(EnergyFactor(e))
  /\ UNCHANGED <<policy, thermal, holder, completed, results, stats, waiting, histories>>

SetThermalState(s) ==
  /\ Begin
  /\ thermal' = s
  /\ SetPeriods(ThermalFactor(s))
  /\ UNCHANGED <<policy, energy, holder, completed, results, stats, waiting, histories>>

\* The end of read, read_raw, write and compute.
RecordAccess(l) ==
  /\ Begin
  /\ layers' = [layers EXCEPT ![l].access_count = @ + 1]
  /\ UNCHANGED <<policy, energy, thermal, holder, completed, results, stats, waiting, histories>>

\* Mutant of QueueEcho: the scheduler is given the propagator that writes queue to.
QueueEchoShared ==
  /\ waiting.fabric < MaxWaiting
  /\ waiting' = [n \in {"fabric", "scheduler"} |-> waiting[n] + 1]
  /\ UNCHANGED <<policy, layers, energy, thermal, holder, completed, results, stats, calls, histories>>

\* write, inject_structured and damping queue to the propagator of fabric.rs:258.
QueueEcho ==
  /\ waiting.fabric < MaxWaiting
  /\ waiting' = [waiting EXCEPT !.fabric = @ + 1]
  /\ UNCHANGED <<policy, layers, energy, thermal, holder, completed, results, stats, calls, histories>>

\* inject_adapt's propagate leaves only the echoes it damped again.
DrainEchoes ==
  /\ \E n \in 0 .. MaxWaiting :
       n < waiting.fabric /\ waiting' = [waiting EXCEPT !.fabric = n]
  /\ UNCHANGED <<policy, layers, energy, thermal, holder, completed, results, stats, calls, histories>>

\* advance_rotation: take the lock and move every phase.
Advance(t, e) ==
  /\ Begin
  /\ holder' = t
  /\ layers' = [l \in Layers |-> AdvanceLayer(layers[l], e)]
  /\ completed' = {l \in Layers : CycleDone(Plus(layers[l].phase, Increment(e, layers[l].period)))}
  /\ results' = [rotations |-> Cardinality(completed'), echoes |-> 0, prefetches |-> 0]
  /\ earned' = [l \in Layers |-> earned[l] + e * Speed(layers[l].period)]
  /\ slack' = [l \in Layers |-> slack[l] + (Ticks - 1) * Speed(layers[l].period)]
  /\ outrun' = outrun \cup {l \in Layers : e >= layers[l].period * Ticks}
  /\ UNCHANGED <<policy, energy, thermal, stats, waiting>>

\* Draining a propagator with an echo in it calls `read`, which blocks on the lock that
\* this thread holds: then there is no step.
TriggerRotation(t, l) ==
  /\ holder = t
  /\ l \in completed
  /\ policy.batch => waiting.scheduler = 0
  /\ completed' = completed \ {l}
  /\ results' = [results EXCEPT
       !.echoes = @ + IF policy.batch THEN waiting.scheduler ELSE 0,
       !.prefetches = @ + IF policy.prefetch /\ l > PrefetchAbove
                            THEN layers[l].rotation_count % 10 ELSE 0]
  /\ UNCHANGED <<policy, layers, energy, thermal, holder, stats, waiting, calls, histories>>

FinishAdvance(t) ==
  /\ holder = t
  /\ completed = {}
  /\ stats' = [n \in DOMAIN stats |-> stats[n] + results[n]]
  /\ holder' = Free
  /\ UNCHANGED <<policy, layers, energy, thermal, completed, results, waiting, calls, histories>>

Next ==
  \/ \E e \in EnergyState : SetEnergyState(e)
  \/ \E s \in ThermalState : SetThermalState(s)
  \/ \E l \in Layers : RecordAccess(l)
  \/ QueueEcho
  \/ DrainEchoes
  \/ \E t \in Threads, e \in Elapsed : Advance(t, e)
  \/ \E t \in Threads, l \in Layers : TriggerRotation(t, l)
  \/ \E t \in Threads : FinishAdvance(t)

\* A thread inside advance_rotation keeps running; callers may stop calling.
Fairness == \A t \in Threads :
  /\ WF_vars(\E l \in Layers : TriggerRotation(t, l))
  /\ WF_vars(FinishAdvance(t))

Spec == Init /\ [][Next]_vars /\ Fairness

-----------------------------------------------------------------------------
(* Properties. *)

Totals == [rotations : Nat, echoes : Nat, prefetches : Nat]

\* Every variable stays within its type, the history variables included.
TypeOK ==
  /\ policy \in Policies
  /\ layers \in [Layers -> [phase : Phase, period : 0 .. U64, base_period : 0 .. U64,
                            rotation_count : Nat, access_count : Nat]]
  /\ energy \in EnergyState /\ thermal \in ThermalState
  /\ holder \in Threads \cup {Free}
  /\ completed \in SUBSET Layers
  /\ results \in Totals /\ stats \in Totals
  /\ waiting \in [{"fabric", "scheduler"} -> 0 .. MaxWaiting]
  /\ calls \in 0 .. MaxCalls
  /\ earned \in [Layers -> Nat] /\ slack \in [Layers -> Nat] /\ outrun \in SUBSET Layers

\* A period is the base period under the energy state's factor alone or under the thermal
\* state's alone: the two adjustments (rotation.rs:194-239) never compound, whatever the
\* order of reports, and no factor of an earlier report survives.
PeriodFromOneFactor ==
  \A l \in Layers :
    layers[l].period \in
      IF policy.energy_aware
        THEN {Scaled(layers[l].base_period, EnergyFactor(energy)),
              Scaled(layers[l].base_period, ThermalFactor(thermal))}
        ELSE {layers[l].base_period}

\* Completed cycles and the phase left are the time a layer was advanced by, save less than
\* a millisecond for each advance: as_millis (rotation.rs:251) drops the rest of each one and
\* nothing else is lost or gained, over any pauses and any changes of the period between. A
\* pause of several periods, of which one cycle comes off (rotation.rs:255), is caught up later.
CyclesAccountForTime ==
  \A l \in Layers : layers[l].phase \in Nat =>
    LET counted == Ticks * (layers[l].rotation_count * Unit + layers[l].phase)
    IN counted <= earned[l] /\ earned[l] <= counted + slack[l]

\* "Current rotation phase (0.0 to 1.0)" (rotation.rs:63) holds for a layer that was never
\* advanced by its whole period at once: a phase is past the cycle, infinite or NaN only
\* after an advance as long as the period of the moment, zero included (rotation.rs:215).
PhaseInCycleUnlessOutrun ==
  \A l \in Layers \ outrun : layers[l].phase \in 0 .. Unit - 1

\* The propagator that trigger_rotation drains (rotation.rs:297) never has an echo in it: it
\* is not the one that writes and damping queue to (fabric.rs:258). So no callback runs under
\* the scheduler's lock, and no echo damped for the next rotation (echo.rs:194) is drained by
\* one.
RotationDrainsNothing == waiting.scheduler = 0 /\ results.echoes = 0 /\ stats.echoes = 0

\* advance_rotation comes back: its callbacks would block on the scheduler's lock
\* (fabric.rs:836, 388) if they were ever called.
AdvanceReturns == \A t \in Threads : holder = t ~> holder = Free
=============================================================================
