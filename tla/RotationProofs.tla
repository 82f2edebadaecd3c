--------------------------- MODULE RotationProofs ---------------------------
(***************************************************************************)
(* Theorems about Rotation, for any tiers, policies, durations and number  *)
(* of threads: its types, what a period and a phase say of their past,     *)
(* which layers' phases stay within a cycle, and that rotation drains      *)
(* nothing.                                                                *)
(***************************************************************************)
EXTENDS Rotation, FiniteSetTheorems, WellFoundedInduction, TLAPS

LayerState == [phase : Phase, period : 0 .. U64, base_period : 0 .. U64,
               rotation_count : Nat, access_count : Nat]

USE DEF histories

-----------------------------------------------------------------------------
(* Lemmas about layers, periods and phases. *)

\* The layers that rotate are finitely many numbers.
LEMMA LayersFinite == Layers \subseteq Nat /\ IsFiniteSet(Layers)
<1>1. \A i \in DOMAIN Tiers : Tiers[i].min .. Tiers[i].max \subseteq Nat
  BY RotationConstants DEF Tier
<1>2. \A i \in DOMAIN Tiers : IsFiniteSet(Tiers[i].min .. Tiers[i].max)
  BY RotationConstants, FS_Interval DEF Tier
<1> DEFINE R == {Tiers[i].min .. Tiers[i].max : i \in DOMAIN Tiers}
<1>3. IsFiniteSet(R)
  <2> DEFINE f == [i \in DOMAIN Tiers |-> Tiers[i].min .. Tiers[i].max]
  <2>1. f \in Surjection(DOMAIN Tiers, R)
    BY DEF Surjection
  <2> HIDE DEF f, R
  <2>2. QED  BY <2>1, RotationConstants, FS_Surjection
<1>4. \A r \in R : IsFiniteSet(r)
  BY <1>2
<1>5. IsFiniteSet(UNION R)
  <2> HIDE DEF R
  <2> QED  BY <1>3, <1>4, FS_UNION
<1>6. QED  BY <1>1, <1>5 DEF Layers

\* A quotient in milliseconds is cut off at U64.
LEMMA AsMillisType ==
  ASSUME NEW n \in Nat, NEW d \in Nat \ {0}
  PROVE  AsMillis(n, d) \in 0 .. U64
BY RotationConstants DEF AsMillis

\* A set of numbers that is not empty has a least one.
LEMMA LeastNumber ==
  ASSUME NEW S, S \subseteq Nat, S # {}
  PROVE  \E i \in S : \A j \in S : i <= j
<1>1. PICK i \in S : \A j \in S : <<j, i>> \notin OpToRel(<, Nat)
  BY WFMin, NatLessThanWellFounded, Zenon
<1>2. \A j \in S : j \in Nat /\ i \in Nat
  OBVIOUS
<1>3. \A j \in S : ~(j < i)
  BY <1>1, <1>2, Zenon DEF OpToRel
<1>4. QED  BY <1>2, <1>3

\* Every rotating layer has a first tier.
LEMMA TierOfLayer ==
  ASSUME NEW l \in Layers
  PROVE  TierForLayer(l) \in Tier
<1> DEFINE S == {i \in DOMAIN Tiers : ContainsLayer(Tiers[i], l)}
<1>1. \E i \in DOMAIN Tiers : l \in Tiers[i].min .. Tiers[i].max
  BY DEF Layers
<1>2. S # {} /\ S \subseteq Nat
  BY <1>1, RotationConstants DEF ContainsLayer, Tier
<1>3. \E i \in S : \A j \in S : i <= j
  <2> HIDE DEF S
  <2> QED  BY <1>2, LeastNumber
<1>4. \E i \in DOMAIN Tiers :
        /\ ContainsLayer(Tiers[i], l)
        /\ \A j \in DOMAIN Tiers : ContainsLayer(Tiers[j], l) => i <= j
  BY <1>3
<1>5. QED  BY <1>4, RotationConstants DEF TierForLayer

\* Base periods are durations.
LEMMA BasePeriodType ==
  ASSUME NEW p \in Policies, NEW l \in Layers
  PROVE  BasePeriod(p, l) \in 0 .. U64
<1>1. BaseMs[TierForLayer(l).id] \in Nat
  BY TierOfLayer DEF Tier, TierIds, BaseMs
<1>2. p.multiplier[1] ^ l \in Nat /\ p.multiplier[2] ^ l \in Nat \ {0}
  BY RotationPowers
<1> DEFINE n == p.multiplier[1] ^ l
           d == p.multiplier[2] ^ l
           b == BaseMs[TierForLayer(l).id]
<1>3. b * n \in Nat
  <2> HIDE DEF b, n
  <2> QED  BY <1>1, <1>2 DEF b, n
<1>4. AsMillis(b * n, d) \in 0 .. U64
  <2> HIDE DEF b, n, d
  <2> QED  BY <1>2, <1>3, AsMillisType DEF d
<1>5. QED  BY <1>4 DEF BasePeriod

\* A period scaled by either state's factor is a duration.
LEMMA ScaledType ==
  ASSUME NEW ms \in 0 .. U64
  PROVE  /\ \A e \in EnergyState : Scaled(ms, EnergyFactor(e)) \in 0 .. U64
         /\ \A t \in ThermalState : Scaled(ms, ThermalFactor(t)) \in 0 .. U64
<1>1. ASSUME NEW n \in Nat, NEW d \in Nat \ {0} PROVE Scaled(ms, <<n, d>>) \in 0 .. U64
  <2>1. ms * n \in Nat
    BY RotationConstants
  <2>2. AsMillis(ms * n, d) \in 0 .. U64
    BY <2>1, AsMillisType
  <2>3. QED  BY <2>2 DEF Scaled
<1>2. \A e \in EnergyState : EnergyFactor(e) \in {<<4, 1>>, <<2, 1>>, <<1, 2>>, <<1, 1>>}
  BY DEF EnergyState, EnergyFactor
<1>3. \A t \in ThermalState : ThermalFactor(t) \in {<<3, 1>>, <<3, 2>>, <<1, 1>>}
  BY DEF ThermalState, ThermalFactor
<1>4. /\ Scaled(ms, <<4, 1>>) \in 0 .. U64 /\ Scaled(ms, <<2, 1>>) \in 0 .. U64
      /\ Scaled(ms, <<1, 2>>) \in 0 .. U64 /\ Scaled(ms, <<1, 1>>) \in 0 .. U64
      /\ Scaled(ms, <<3, 1>>) \in 0 .. U64 /\ Scaled(ms, <<3, 2>>) \in 0 .. U64
  BY <1>1
<1>5. QED  BY <1>2, <1>3, <1>4

\* A factor of two numbers that is at least as large gives the larger product.
LEMMA TimesMonotone ==
  ASSUME NEW a \in Nat, NEW b \in Nat, NEW g \in Nat, a <= b
  PROVE  a * g <= b * g /\ a * g \in Nat /\ b * g \in Nat /\ b * g - a * g = (b - a) * g
<1>1. b - a \in Nat
  OBVIOUS
<1>2. (b - a) * g \in Nat /\ b * g = a * g + (b - a) * g /\ a * g \in Nat
  BY <1>1
<1>3. QED  BY <1>2

\* Whole milliseconds leave less than one millisecond over.
LEMMA MillisOfTicks ==
  ASSUME NEW e \in Nat
  PROVE  /\ Millis(e) \in Nat /\ Ticks * Millis(e) \in Nat
         /\ Ticks * Millis(e) <= e /\ e <= Ticks * Millis(e) + (Ticks - 1)
<1>1. Millis(e) \in Nat
  BY RotationConstants DEF Millis
<1>2. e = Ticks * Millis(e) + (e % Ticks) /\ e % Ticks \in 0 .. Ticks - 1
  BY RotationConstants DEF Millis
<1>3. Ticks * Millis(e) \in Nat
  BY <1>1, RotationConstants
<1> DEFINE m == Ticks * Millis(e)
           r == e % Ticks
<1> HIDE DEF m, r
<1>4. m \in Nat /\ e = m + r /\ r \in 0 .. Ticks - 1
  BY <1>2, <1>3 DEF m, r
<1>5. m <= e /\ e <= m + (Ticks - 1)
  BY <1>4, RotationConstants
<1>6. QED  BY <1>1, <1>3, <1>5 DEF m

\* The phase of a millisecond, and of the milliseconds of a period: at most one cycle.
LEMMA SpeedOfPeriod ==
  ASSUME NEW period \in 0 .. U64
  PROVE  Speed(period) \in Nat /\ period * Speed(period) <= Unit
<1>1. CASE period = 0
  BY <1>1, RotationConstants DEF Speed
<1>2. CASE period # 0
  <2>1. period \in Nat \ {0}
    BY <1>2, RotationConstants
  <2>2. Unit \div period \in Nat /\ Unit = period * (Unit \div period) + (Unit % period)
        /\ Unit % period \in Nat
    BY <2>1, RotationConstants
  <2> DEFINE q == Unit \div period
             w == period * q
             r == Unit % period
  <2>3. w \in Nat
    BY <2>1, <2>2
  <2> HIDE DEF q, w, r
  <2>4. q \in Nat /\ Unit = w + r /\ r \in Nat
    BY <2>2 DEF q, w, r
  <2>5. w <= Unit
    BY <2>3, <2>4, RotationConstants
  <2>6. Speed(period) = q
    BY <1>2 DEF Speed, q
  <2>7. QED  BY <2>4, <2>5, <2>6 DEF w
<1>3. QED  BY <1>1, <1>2

\* What time adds to a phase is a phase; a number unless the period is zero.
LEMMA IncrementType ==
  ASSUME NEW e \in Elapsed, NEW period \in 0 .. U64
  PROVE  /\ Increment(e, period) \in Phase
         /\ Increment(e, period) \in Nat => Increment(e, period) = Millis(e) * Speed(period)
         /\ period # 0 => Increment(e, period) \in Nat
<1>0. e \in Nat /\ Millis(e) \in Nat /\ Speed(period) \in Nat
  BY RotationConstants, MillisOfTicks, SpeedOfPeriod
<1>1. Millis(e) * Speed(period) \in Nat
  BY <1>0
<1>2. CASE period # 0
  BY <1>1, <1>2 DEF Increment, Phase
<1>3. CASE period = 0
  BY <1>3, RotationConstants DEF Increment, Phase
<1>4. QED  BY <1>2, <1>3

\* An increment is the time's worth in phase but for less than a millisecond's.
LEMMA IncrementOfTime ==
  ASSUME NEW e \in Elapsed, NEW period \in 0 .. U64, Increment(e, period) \in Nat
  PROVE  LET g == Speed(period) IN
         /\ e * g \in Nat /\ (Ticks - 1) * g \in Nat
         /\ Ticks * Increment(e, period) <= e * g
         /\ e * g <= Ticks * Increment(e, period) + (Ticks - 1) * g
<1> DEFINE g == Speed(period)
           m == Millis(e)
<1>1. e \in Nat /\ m \in Nat /\ g \in Nat /\ Ticks \in Nat /\ Ticks - 1 \in Nat
  BY RotationConstants, MillisOfTicks, SpeedOfPeriod
<1>2. Ticks * m \in Nat /\ Ticks * m <= e /\ e <= Ticks * m + (Ticks - 1)
  BY <1>1, MillisOfTicks
<1>3. Increment(e, period) = m * g
  BY IncrementType
<1> HIDE DEF g, m
<1>4. Ticks * (m * g) = (Ticks * m) * g /\ e * g \in Nat /\ (Ticks - 1) * g \in Nat
  BY <1>1
<1> DEFINE a == Ticks * m
           b == Ticks - 1
<1>5. a * g <= e * g
  <2> HIDE DEF a
  <2> QED  BY <1>1, <1>2, TimesMonotone DEF a
<1>6. e * g <= (a + b) * g
  <2>1. a + b \in Nat /\ e <= a + b
    BY <1>1, <1>2
  <2> HIDE DEF a, b
  <2>2. QED  BY <1>1, <2>1, TimesMonotone
<1>7. (a + b) * g = a * g + b * g
  <2>1. a \in Nat /\ b \in Nat
    BY <1>1, <1>2
  <2> HIDE DEF a, b
  <2>2. QED  BY <1>1, <2>1
<1>8. QED  BY <1>3, <1>4, <1>5, <1>6, <1>7 DEF g

\* An advance shorter than the period adds less than a cycle.
LEMMA ShortIncrement ==
  ASSUME NEW e \in Elapsed, NEW period \in 0 .. U64, ~(e >= period * Ticks)
  PROVE  Increment(e, period) \in 0 .. Unit - 1
<1> DEFINE g == Speed(period)
           m == Millis(e)
<1>1. /\ e \in Nat /\ m \in Nat /\ g \in Nat /\ period \in Nat
      /\ Ticks \in Nat \ {0} /\ Unit \in Nat \ {0}
  <2>1. e \in Nat /\ period \in Nat /\ Ticks \in Nat \ {0} /\ Unit \in Nat \ {0}
    BY RotationConstants
  <2>2. m \in Nat
    BY <2>1, MillisOfTicks
  <2>3. g \in Nat
    BY SpeedOfPeriod
  <2> HIDE DEF g, m
  <2>4. QED  BY <2>1, <2>2, <2>3
<1>2. Ticks * m \in Nat /\ Ticks * m <= e
  BY <1>1, MillisOfTicks
<1>3. m < period
  <2>1. CASE period <= m
    <3>1. period * Ticks <= m * Ticks
      BY <1>1, <2>1, TimesMonotone
    <3>2. m * Ticks = Ticks * m
      BY <1>1
    <3>3. period * Ticks <= e
      <4>1. period * Ticks \in Nat
        BY <1>1
      <4> DEFINE a == period * Ticks
                 b == Ticks * m
      <4>2. a <= b /\ b <= e /\ a \in Nat /\ b \in Nat
        BY <1>2, <3>1, <3>2, <4>1
      <4> HIDE DEF a, b
      <4>3. a <= e
        BY <1>1, <4>2
      <4>4. QED  BY <4>3 DEF a
    <3>4. QED  BY <3>3
  <2>2. QED  BY <1>1, <2>1
<1>4. Increment(e, period) = m * g
  BY <1>1, <1>3, IncrementType
<1>5. period * g <= Unit
  BY SpeedOfPeriod
<1> HIDE DEF g, m
<1>6. CASE g = 0
  BY <1>1, <1>4, <1>6
<1>7. CASE g # 0
  <2>1. m + 1 \in Nat /\ m + 1 <= period
    BY <1>1, <1>3
  <2>2. (m + 1) * g <= period * g /\ period * g \in Nat
    BY <1>1, <2>1, TimesMonotone
  <2>3. (m + 1) * g = m * g + g /\ m * g \in Nat
    BY <1>1
  <2> DEFINE x == m * g
             y == period * g
  <2>4. x \in Nat /\ y \in Nat /\ x + g <= y /\ y <= Unit
    BY <1>5, <2>2, <2>3
  <2> HIDE DEF x, y
  <2>5. x \in 0 .. Unit - 1
    BY <1>1, <1>7, <2>4
  <2>6. QED  BY <1>4, <2>5 DEF x
<1>8. QED  BY <1>6, <1>7

\* Sums of phases: only numbers add up to a number, and they add exactly.
LEMMA PlusType ==
  ASSUME NEW x \in Phase, NEW y \in Phase
  PROVE  /\ Plus(x, y) \in Phase
         /\ Plus(x, y) \in Nat => x \in Nat /\ y \in Nat /\ Plus(x, y) = x + y
         /\ x \in Nat /\ y \in Nat => Plus(x, y) = x + y
BY RotationConstants DEF Plus, Phase

\* One layer advanced: its type, and that a cycle counted is a cycle off the phase.
LEMMA AdvanceLayerFacts ==
  ASSUME NEW s \in LayerState, NEW e \in Elapsed
  PROVE  LET r == AdvanceLayer(s, e)
             x == Plus(s.phase, Increment(e, s.period))
         IN /\ r \in LayerState
            /\ r.period = s.period /\ r.base_period = s.base_period
            /\ r.phase \in Nat => /\ x \in Nat
                                  /\ r.rotation_count * Unit + r.phase = s.rotation_count * Unit + x
            /\ x \in 0 .. 2 * Unit - 1 => r.phase \in 0 .. Unit - 1
<1> DEFINE i == Increment(e, s.period)
           x == Plus(s.phase, i)
           r == AdvanceLayer(s, e)
<1>1. s.phase \in Phase /\ s.period \in 0 .. U64 /\ s.rotation_count \in Nat
  BY DEF LayerState
<1>2. i \in Phase
  BY <1>1, IncrementType
<1>3. x \in Phase
  <2> HIDE DEF i
  <2> QED  BY <1>1, <1>2, PlusType
<1>4. r = IF CycleDone(x)
            THEN [s EXCEPT !.phase = LessOne(x), !.rotation_count = @ + 1, !.access_count = 0]
            ELSE [s EXCEPT !.phase = x, !.access_count = 0]
  BY DEF AdvanceLayer
<1> HIDE DEF i, x, r
<1>5. CASE CycleDone(x)
  <2>1. x = Inf \/ (x \in Nat /\ x >= Unit)
    BY <1>5 DEF CycleDone
  <2>2. LessOne(x) \in Phase /\ (x = Inf => LessOne(x) = Inf) /\ (x # Inf => LessOne(x) = x - Unit)
    BY <2>1, RotationConstants DEF LessOne, Phase
  <2>3. /\ r \in LayerState /\ r.period = s.period /\ r.base_period = s.base_period
        /\ r.phase = LessOne(x) /\ r.rotation_count = s.rotation_count + 1
    <3> DEFINE y == LessOne(x)
    <3>1. r = [s EXCEPT !.phase = y, !.rotation_count = s.rotation_count + 1, !.access_count = 0]
      BY <1>4, <1>5
    <3>2. y \in Phase /\ s.rotation_count + 1 \in Nat
      BY <1>1, <2>2
    <3> HIDE DEF y
    <3>3. QED  BY <3>1, <3>2 DEF LayerState, y
  <2>4. r.phase \in Nat => /\ x \in Nat
                           /\ r.rotation_count * Unit + r.phase = s.rotation_count * Unit + x
    BY <1>1, <2>1, <2>2, <2>3, RotationConstants
  <2>5. x \in 0 .. 2 * Unit - 1 => r.phase \in 0 .. Unit - 1
    BY <2>1, <2>2, <2>3, RotationConstants
  <2>6. QED  BY <1>3, <2>2, <2>3, <2>4, <2>5 DEF r, x, i
<1>6. CASE ~CycleDone(x)
  <2>1. /\ r \in LayerState /\ r.period = s.period /\ r.base_period = s.base_period
        /\ r.phase = x /\ r.rotation_count = s.rotation_count
    BY <1>3, <1>4, <1>6 DEF LayerState
  <2>2. x \in 0 .. 2 * Unit - 1 => x \in 0 .. Unit - 1
    BY <1>6, RotationConstants DEF CycleDone
  <2>3. QED  BY <1>3, <2>1, <2>2 DEF r, x, i
<1>7. QED  BY <1>5, <1>6

-----------------------------------------------------------------------------
(* Type correctness. *)

\* The layers' part of TypeOK, which LayerState names.
LEMMA TypeOfLayers ==
  TypeOK <=> /\ policy \in Policies
             /\ layers \in [Layers -> LayerState]
             /\ energy \in EnergyState /\ thermal \in ThermalState
             /\ holder \in Threads \cup {Free}
             /\ completed \in SUBSET Layers
             /\ results \in Totals /\ stats \in Totals
             /\ waiting \in [{"fabric", "scheduler"} -> 0 .. MaxWaiting]
             /\ calls \in 0 .. MaxCalls
             /\ earned \in [Layers -> Nat] /\ slack \in [Layers -> Nat]
             /\ outrun \in SUBSET Layers
BY DEF TypeOK, LayerState

\* The scheduler starts with every layer at phase zero of its base period.
LEMMA TypeInit == Init => TypeOK
<1> SUFFICES ASSUME Init PROVE TypeOK
  OBVIOUS
<1>1. layers \in [Layers -> LayerState]
  <2>1. \A l \in Layers : BasePeriod(policy, l) \in 0 .. U64
    BY BasePeriodType DEF Init
  <2>2. \A l \in Layers :
          [phase |-> 0, period |-> BasePeriod(policy, l), base_period |-> BasePeriod(policy, l),
           rotation_count |-> 0, access_count |-> 0] \in LayerState
    BY <2>1 DEF LayerState, Phase
  <2>3. QED  BY <2>2 DEF Init
<1>2. /\ results \in Totals /\ stats \in Totals
      /\ waiting \in [{"fabric", "scheduler"} -> 0 .. MaxWaiting]
      /\ earned \in [Layers -> Nat] /\ slack \in [Layers -> Nat] /\ outrun \in SUBSET Layers
  BY RotationConstants DEF Init, Totals, Phase
<1>3. /\ policy \in Policies /\ energy \in EnergyState /\ thermal \in ThermalState
      /\ holder \in Threads \cup {Free} /\ completed \in SUBSET Layers /\ calls \in 0 .. MaxCalls
  BY RotationConstants DEF Init, EnergyState, ThermalState
<1>4. QED  BY <1>1, <1>2, <1>3, TypeOfLayers

\* Setting the periods keeps the layers' type, whichever state's factor it is.
LEMMA SetPeriodsType ==
  ASSUME layers \in [Layers -> LayerState], NEW factor, SetPeriods(factor),
         \A ms \in 0 .. U64 : Scaled(ms, factor) \in 0 .. U64
  PROVE  /\ layers' \in [Layers -> LayerState]
         /\ \A l \in Layers : /\ layers'[l].base_period = layers[l].base_period
                               /\ layers'[l].phase = layers[l].phase
                               /\ layers'[l].rotation_count = layers[l].rotation_count
                               /\ layers'[l].period =
                                    IF policy.energy_aware
                                      THEN Scaled(layers[l].base_period, factor)
                                      ELSE layers[l].period
<1>1. CASE policy.energy_aware
  <2>1. layers' = [l \in Layers |-> [layers[l] EXCEPT !.period = Scaled(layers[l].base_period, factor)]]
    BY <1>1 DEF SetPeriods
  <2>2. ASSUME NEW l \in Layers
        PROVE  /\ layers'[l] \in LayerState
               /\ layers'[l].base_period = layers[l].base_period
               /\ layers'[l].phase = layers[l].phase
               /\ layers'[l].rotation_count = layers[l].rotation_count
               /\ layers'[l].period = Scaled(layers[l].base_period, factor)
    <3> DEFINE y == Scaled(layers[l].base_period, factor)
    <3>1. y \in 0 .. U64
      BY DEF LayerState
    <3>2. layers'[l] = [layers[l] EXCEPT !.period = y]
      BY <2>1
    <3> HIDE DEF y
    <3>3. QED  BY <3>1, <3>2 DEF LayerState, y
  <2>3. QED  BY <1>1, <2>1, <2>2
<1>2. CASE ~policy.energy_aware
  BY <1>2 DEF SetPeriods
<1>3. QED  BY <1>1, <1>2

\* Every step keeps the types.
LEMMA TypeStep == TypeOK /\ [Next]_vars => TypeOK'
<1> SUFFICES ASSUME TypeOK, [Next]_vars PROVE TypeOK'
  OBVIOUS
<1>0. /\ layers \in [Layers -> LayerState]
      /\ Begin => calls' \in 0 .. MaxCalls
  BY TypeOfLayers, RotationConstants DEF Begin, TypeOK
<1>1. ASSUME NEW e \in EnergyState, SetEnergyState(e) PROVE TypeOK'
  <2>1. layers' \in [Layers -> LayerState]
    BY <1>0, <1>1, ScaledType, SetPeriodsType DEF SetEnergyState
  <2>2. QED  BY <1>0, <1>1, <2>1 DEF SetEnergyState, TypeOK, LayerState
<1>2. ASSUME NEW s \in ThermalState, SetThermalState(s) PROVE TypeOK'
  <2>1. layers' \in [Layers -> LayerState]
    BY <1>0, <1>2, ScaledType, SetPeriodsType DEF SetThermalState
  <2>2. QED  BY <1>0, <1>2, <2>1 DEF SetThermalState, TypeOK, LayerState
<1>3. ASSUME NEW l \in Layers, RecordAccess(l) PROVE TypeOK'
  <2>1. layers' \in [Layers -> LayerState]
    BY <1>0, <1>3 DEF RecordAccess, LayerState
  <2>2. QED  BY <1>0, <1>3, <2>1 DEF RecordAccess, TypeOK, LayerState
<1>4. CASE QueueEcho
  <2>1. waiting' \in [{"fabric", "scheduler"} -> 0 .. MaxWaiting]
    BY <1>4, RotationConstants DEF QueueEcho, TypeOK
  <2>2. QED  BY <1>4, <2>1 DEF QueueEcho, TypeOK
<1>5. CASE DrainEchoes
  <2>1. waiting' \in [{"fabric", "scheduler"} -> 0 .. MaxWaiting]
    BY <1>5 DEF DrainEchoes, TypeOK
  <2>2. QED  BY <1>5, <2>1 DEF DrainEchoes, TypeOK
<1>6. ASSUME NEW t \in Threads, NEW e \in Elapsed, Advance(t, e) PROVE TypeOK'
  <2>1. layers' \in [Layers -> LayerState]
    <3>1. \A l \in Layers : AdvanceLayer(layers[l], e) \in LayerState
      BY <1>0, AdvanceLayerFacts
    <3>2. QED  BY <1>6, <3>1 DEF Advance
  <2>2. earned' \in [Layers -> Nat] /\ slack' \in [Layers -> Nat] /\ outrun' \in SUBSET Layers
    <3>1. \A l \in Layers : Speed(layers[l].period) \in Nat
      BY <1>0, SpeedOfPeriod DEF LayerState
    <3>2. e \in Nat /\ Ticks - 1 \in Nat
      BY RotationConstants
    <3>3. \A l \in Layers : /\ e * Speed(layers[l].period) \in Nat
                             /\ (Ticks - 1) * Speed(layers[l].period) \in Nat
      BY <3>1, <3>2
    <3>4. QED  BY <1>6, <3>3 DEF Advance, TypeOK
  <2>3. completed' \subseteq Layers /\ results' \in Totals
    <3>1. completed' \subseteq Layers
      BY <1>6 DEF Advance
    <3>2. Cardinality(completed') \in Nat
      BY <3>1, LayersFinite, FS_Subset, FS_CardinalityType
    <3>3. QED  BY <1>6, <3>1, <3>2 DEF Advance, Totals
  <2>4. /\ UNCHANGED <<policy, energy, thermal, stats, waiting>>
        /\ holder' = t /\ calls' \in 0 .. MaxCalls
    BY <1>0, <1>6 DEF Advance
  <2>5. QED  BY <2>1, <2>2, <2>3, <2>4 DEF TypeOK, LayerState
<1>7. ASSUME NEW t \in Threads, NEW l \in Layers, TriggerRotation(t, l) PROVE TypeOK'
  <2> DEFINE n == IF policy.batch THEN waiting.scheduler ELSE 0
             m == IF policy.prefetch /\ l > PrefetchAbove THEN layers[l].rotation_count % 10 ELSE 0
  <2>1. n \in Nat /\ m \in Nat
    BY <1>0 DEF TypeOK, LayerState
  <2>2. results' = [results EXCEPT !.echoes = @ + n, !.prefetches = @ + m]
    BY <1>7 DEF TriggerRotation
  <2> HIDE DEF n, m
  <2>3. results' \in Totals
    <3>1. results \in Totals
      BY DEF TypeOK
    <3>2. results.echoes + n \in Nat /\ results.prefetches + m \in Nat
      BY <2>1, <3>1 DEF Totals
    <3>3. QED  BY <2>2, <3>1, <3>2 DEF Totals
  <2>4. /\ UNCHANGED <<policy, layers, energy, thermal, holder, stats, waiting, calls, histories>>
        /\ completed' \subseteq completed
    BY <1>7 DEF TriggerRotation
  <2>5. QED  BY <2>3, <2>4 DEF TypeOK
<1>8. ASSUME NEW t \in Threads, FinishAdvance(t) PROVE TypeOK'
  <2>1. stats' \in Totals
    BY <1>8 DEF FinishAdvance, TypeOK, Totals
  <2>2. QED  BY <1>8, <2>1 DEF FinishAdvance, TypeOK
<1>9. CASE UNCHANGED vars
  BY <1>9 DEF vars, TypeOK
<1>10. QED  BY <1>1, <1>2, <1>3, <1>4, <1>5, <1>6, <1>7, <1>8, <1>9 DEF Next

\* Every reachable state is of the declared types, the sums of elapsed time included.
THEOREM TypeCorrect == Spec => []TypeOK
<1>1. QED  BY TypeInit, TypeStep, PTL DEF Spec

-----------------------------------------------------------------------------
(* What the scheduler keeps and loses. *)

\* A step of the scheduler's phases is an advance; no other touches a phase, a count or
\* the histories.
LEMMA PhaseSteps ==
  ASSUME TypeOK, [Next]_vars
  PROVE  \/ \E e \in Elapsed :
              /\ layers' = [l \in Layers |-> AdvanceLayer(layers[l], e)]
              /\ earned' = [l \in Layers |-> earned[l] + e * Speed(layers[l].period)]
              /\ slack' = [l \in Layers |-> slack[l] + (Ticks - 1) * Speed(layers[l].period)]
              /\ outrun' = outrun \cup {l \in Layers : e >= layers[l].period * Ticks}
              /\ UNCHANGED <<policy, energy, thermal>>
         \/ /\ \A l \in Layers : /\ layers'[l].phase = layers[l].phase
                                  /\ layers'[l].rotation_count = layers[l].rotation_count
            /\ UNCHANGED histories
<1>0. layers \in [Layers -> LayerState]
  BY TypeOfLayers
<1>1. ASSUME NEW e \in EnergyState, SetEnergyState(e)
      PROVE  \A l \in Layers : layers'[l].phase = layers[l].phase
                               /\ layers'[l].rotation_count = layers[l].rotation_count
  BY <1>0, <1>1, ScaledType, SetPeriodsType DEF SetEnergyState
<1>2. ASSUME NEW s \in ThermalState, SetThermalState(s)
      PROVE  \A l \in Layers : layers'[l].phase = layers[l].phase
                               /\ layers'[l].rotation_count = layers[l].rotation_count
  BY <1>0, <1>2, ScaledType, SetPeriodsType DEF SetThermalState
<1>3. ASSUME NEW l \in Layers, RecordAccess(l)
      PROVE  \A k \in Layers : layers'[k].phase = layers[k].phase
                               /\ layers'[k].rotation_count = layers[k].rotation_count
  BY <1>0, <1>3 DEF RecordAccess, LayerState
<1>4. ASSUME NEW t \in Threads, NEW e \in Elapsed, Advance(t, e)
      PROVE  /\ layers' = [l \in Layers |-> AdvanceLayer(layers[l], e)]
             /\ earned' = [l \in Layers |-> earned[l] + e * Speed(layers[l].period)]
             /\ slack' = [l \in Layers |-> slack[l] + (Ticks - 1) * Speed(layers[l].period)]
             /\ outrun' = outrun \cup {l \in Layers : e >= layers[l].period * Ticks}
             /\ UNCHANGED <<policy, energy, thermal>>
  BY <1>4 DEF Advance
<1>5. CASE \/ QueueEcho \/ DrainEchoes \/ UNCHANGED vars
           \/ \E t \in Threads, l \in Layers : TriggerRotation(t, l)
           \/ \E t \in Threads : FinishAdvance(t)
  BY <1>5 DEF QueueEcho, DrainEchoes, TriggerRotation, FinishAdvance, vars
<1>6. (\E e \in EnergyState : SetEnergyState(e)) \/ (\E s \in ThermalState : SetThermalState(s))
        \/ (\E l \in Layers : RecordAccess(l)) => UNCHANGED histories
  BY DEF SetEnergyState, SetThermalState, RecordAccess
<1>7. QED  BY <1>1, <1>2, <1>3, <1>4, <1>5, <1>6 DEF Next

\* Cycles counted and phase left are the time a layer was given, less than a millisecond an
\* advance short (rotation.rs:251-262), after any pauses and any changes of its period.
THEOREM TimeIsAccountedFor == Spec => []CyclesAccountForTime
<1>1. Init => CyclesAccountForTime
  BY RotationConstants DEF Init, CyclesAccountForTime
<1>2. TypeOK /\ CyclesAccountForTime /\ [Next]_vars => CyclesAccountForTime'
  <2> SUFFICES ASSUME TypeOK, CyclesAccountForTime, [Next]_vars,
                      NEW l \in Layers, layers'[l].phase \in Nat
               PROVE  /\ Ticks * (layers'[l].rotation_count * Unit + layers'[l].phase) <= earned'[l]
                      /\ earned'[l] <= Ticks * (layers'[l].rotation_count * Unit + layers'[l].phase)
                                         + slack'[l]
    BY DEF CyclesAccountForTime
  <2>1. CASE /\ \A k \in Layers : /\ layers'[k].phase = layers[k].phase
                                   /\ layers'[k].rotation_count = layers[k].rotation_count
             /\ UNCHANGED histories
    BY <2>1 DEF CyclesAccountForTime
  <2>2. ASSUME NEW e \in Elapsed,
               layers' = [k \in Layers |-> AdvanceLayer(layers[k], e)],
               earned' = [k \in Layers |-> earned[k] + e * Speed(layers[k].period)],
               slack' = [k \in Layers |-> slack[k] + (Ticks - 1) * Speed(layers[k].period)]
        PROVE  /\ Ticks * (layers'[l].rotation_count * Unit + layers'[l].phase) <= earned'[l]
               /\ earned'[l] <= Ticks * (layers'[l].rotation_count * Unit + layers'[l].phase)
                                  + slack'[l]
    <3> DEFINE s == layers[l]
               r == AdvanceLayer(s, e)
               i == Increment(e, s.period)
               x == Plus(s.phase, i)
               g == Speed(s.period)
               before == s.rotation_count * Unit + s.phase
               after == r.rotation_count * Unit + r.phase
               given == e * g
               spare == (Ticks - 1) * g
    <3>1. /\ s \in LayerState /\ r = layers'[l]
          /\ earned'[l] = earned[l] + given /\ slack'[l] = slack[l] + spare
          /\ earned[l] \in Nat /\ slack[l] \in Nat
      BY <2>2, TypeOfLayers
    <3>2. x \in Nat /\ after = s.rotation_count * Unit + x
      BY <3>1, AdvanceLayerFacts
    <3>3. s.phase \in Phase /\ i \in Phase /\ s.rotation_count \in Nat /\ s.period \in 0 .. U64
      BY <3>1, IncrementType DEF LayerState
    <3>4. s.phase \in Nat /\ i \in Nat /\ x = s.phase + i
      <4> HIDE DEF i
      <4> QED  BY <3>2, <3>3, PlusType
    <3>5. before \in Nat /\ after = before + i
      <4>1. s.rotation_count * Unit \in Nat
        BY <3>3, RotationConstants
      <4> HIDE DEF i, x, r
      <4>2. QED  BY <3>2, <3>4, <4>1
    <3>6. Ticks * before <= earned[l] /\ earned[l] <= Ticks * before + slack[l]
      BY <3>4 DEF CyclesAccountForTime
    <3>7. /\ given \in Nat /\ spare \in Nat
          /\ Ticks * i <= given /\ given <= Ticks * i + spare
      BY <3>3, <3>4, IncrementOfTime
    <3> HIDE DEF s, r, i, x, g, before, after, given, spare
    <3>8. Ticks * after = Ticks * before + Ticks * i /\ Ticks * before \in Nat /\ Ticks * i \in Nat
      BY <3>4, <3>5, RotationConstants
    <3>9. Ticks * after <= earned'[l] /\ earned'[l] <= Ticks * after + slack'[l]
      BY <3>1, <3>6, <3>7, <3>8
    <3>10. QED  BY <3>1, <3>9 DEF after
  <2>3. QED  BY <2>1, <2>2, PhaseSteps
<1>3. QED  BY <1>1, <1>2, TypeInit, TypeStep, PTL DEF Spec

\* A layer that no advance outran has a phase within the cycle (rotation.rs:63), whatever its
\* periods were.
THEOREM PhasesStayInCycle == Spec => []PhaseInCycleUnlessOutrun
<1>1. Init => PhaseInCycleUnlessOutrun
  BY RotationConstants DEF Init, PhaseInCycleUnlessOutrun
<1>2. TypeOK /\ PhaseInCycleUnlessOutrun /\ [Next]_vars => PhaseInCycleUnlessOutrun'
  <2> SUFFICES ASSUME TypeOK, PhaseInCycleUnlessOutrun, [Next]_vars,
                      NEW l \in Layers, l \notin outrun'
               PROVE  layers'[l].phase \in 0 .. Unit - 1
    BY DEF PhaseInCycleUnlessOutrun
  <2>1. CASE /\ \A k \in Layers : /\ layers'[k].phase = layers[k].phase
                                   /\ layers'[k].rotation_count = layers[k].rotation_count
             /\ UNCHANGED histories
    BY <2>1 DEF PhaseInCycleUnlessOutrun
  <2>2. ASSUME NEW e \in Elapsed,
               layers' = [k \in Layers |-> AdvanceLayer(layers[k], e)],
               outrun' = outrun \cup {k \in Layers : e >= layers[k].period * Ticks}
        PROVE  layers'[l].phase \in 0 .. Unit - 1
    <3> DEFINE s == layers[l]
               i == Increment(e, s.period)
    <3>1. s \in LayerState /\ layers'[l] = AdvanceLayer(s, e)
      BY <2>2, TypeOfLayers
    <3>2. l \notin outrun /\ ~(e >= s.period * Ticks)
      BY <2>2
    <3>3. s.phase \in 0 .. Unit - 1 /\ s.period \in 0 .. U64
      BY <3>1, <3>2 DEF PhaseInCycleUnlessOutrun, LayerState
    <3>4. i \in 0 .. Unit - 1
      BY <3>2, <3>3, ShortIncrement
    <3>5. Plus(s.phase, i) \in 0 .. 2 * Unit - 1
      <4>1. s.phase \in Nat /\ i \in Nat /\ s.phase \in Phase /\ i \in Phase
        BY <3>3, <3>4, RotationConstants DEF Phase
      <4> HIDE DEF s, i
      <4>2. Plus(s.phase, i) = s.phase + i
        BY <4>1, PlusType
      <4>3. QED  BY <3>3, <3>4, <4>2, RotationConstants
    <3>6. QED  BY <3>1, <3>5, AdvanceLayerFacts
  <2>3. QED  BY <2>1, <2>2, PhaseSteps
<1>3. QED  BY <1>1, <1>2, TypeInit, TypeStep, PTL DEF Spec

\* A layer's base period is the one its policy gave it, and its period that or the base
\* under one of the two states' current factors.
THEOREM OneFactorAtATime == Spec => []PeriodFromOneFactor
<1>1. Init => PeriodFromOneFactor
  <2> SUFFICES ASSUME Init, NEW l \in Layers
               PROVE  layers[l].period \in
                        IF policy.energy_aware
                          THEN {Scaled(layers[l].base_period, EnergyFactor(energy)),
                                Scaled(layers[l].base_period, ThermalFactor(thermal))}
                          ELSE {layers[l].base_period}
    BY DEF PeriodFromOneFactor
  <2> DEFINE base == BasePeriod(policy, l)
  <2>1. base \in 0 .. U64
    BY BasePeriodType DEF Init
  <2>2. layers[l].period = base /\ layers[l].base_period = base
    BY DEF Init
  <2>3. EnergyFactor(energy) = <<1, 1>>
    BY DEF Init, EnergyFactor
  <2> HIDE DEF base
  <2>4. Scaled(base, <<1, 1>>) = base
    <3>1. base \in Nat /\ base <= U64 /\ U64 \in Nat
      BY <2>1, RotationConstants
    <3>2. base * 1 = base /\ base \div 1 = base
      BY <3>1
    <3>3. QED  BY <3>1, <3>2 DEF Scaled, AsMillis
  <2>5. QED  BY <2>2, <2>3, <2>4
<1>2. TypeOK /\ PeriodFromOneFactor /\ [Next]_vars => PeriodFromOneFactor'
  <2> SUFFICES ASSUME TypeOK, PeriodFromOneFactor, [Next]_vars PROVE PeriodFromOneFactor'
    OBVIOUS
  <2>0. layers \in [Layers -> LayerState]
    BY TypeOfLayers
  <2>1. ASSUME NEW e \in EnergyState, SetEnergyState(e) PROVE PeriodFromOneFactor'
    <3>1. /\ UNCHANGED policy /\ energy' = e
          /\ \A l \in Layers : /\ layers'[l].base_period = layers[l].base_period
                                /\ layers'[l].period =
                                     IF policy.energy_aware
                                       THEN Scaled(layers[l].base_period, EnergyFactor(e))
                                       ELSE layers[l].period
      BY <2>0, <2>1, ScaledType, SetPeriodsType DEF SetEnergyState
    <3>2. QED  BY <3>1 DEF PeriodFromOneFactor
  <2>2. ASSUME NEW s \in ThermalState, SetThermalState(s) PROVE PeriodFromOneFactor'
    <3>1. /\ UNCHANGED policy /\ thermal' = s
          /\ \A l \in Layers : /\ layers'[l].base_period = layers[l].base_period
                                /\ layers'[l].period =
                                     IF policy.energy_aware
                                       THEN Scaled(layers[l].base_period, ThermalFactor(s))
                                       ELSE layers[l].period
      BY <2>0, <2>2, ScaledType, SetPeriodsType DEF SetThermalState
    <3>2. QED  BY <3>1 DEF PeriodFromOneFactor
  <2>3. ASSUME NEW l \in Layers, RecordAccess(l) PROVE PeriodFromOneFactor'
    <3>1. /\ UNCHANGED <<policy, energy, thermal>>
          /\ \A k \in Layers : layers'[k].base_period = layers[k].base_period
                                /\ layers'[k].period = layers[k].period
      BY <2>0, <2>3 DEF RecordAccess, LayerState
    <3>2. QED  BY <3>1 DEF PeriodFromOneFactor
  <2>4. ASSUME NEW t \in Threads, NEW e \in Elapsed, Advance(t, e) PROVE PeriodFromOneFactor'
    <3>1. /\ UNCHANGED <<policy, energy, thermal>>
          /\ \A l \in Layers : layers'[l] = AdvanceLayer(layers[l], e)
      BY <2>4 DEF Advance
    <3>2. \A l \in Layers : layers'[l].base_period = layers[l].base_period
                            /\ layers'[l].period = layers[l].period
      BY <2>0, <3>1, AdvanceLayerFacts
    <3>3. QED  BY <3>1, <3>2 DEF PeriodFromOneFactor
  <2>5. CASE \/ QueueEcho \/ DrainEchoes \/ UNCHANGED vars
             \/ \E t \in Threads, l \in Layers : TriggerRotation(t, l)
             \/ \E t \in Threads : FinishAdvance(t)
    <3>1. UNCHANGED <<policy, energy, thermal, layers>>
      BY <2>5 DEF QueueEcho, DrainEchoes, TriggerRotation, FinishAdvance, vars
    <3>2. QED  BY <3>1 DEF PeriodFromOneFactor
  <2>6. QED  BY <2>1, <2>2, <2>3, <2>4, <2>5 DEF Next
<1>3. QED  BY <1>1, <1>2, TypeInit, TypeStep, PTL DEF Spec

\* Rotation never drains an echo (rotation.rs:297 against fabric.rs:258): nothing is queued to
\* the propagator it drains, so its callbacks never run under its lock either.
THEOREM NothingDrained == Spec => []RotationDrainsNothing
<1>1. Init => RotationDrainsNothing
  BY DEF Init, RotationDrainsNothing
<1>2. TypeOK /\ RotationDrainsNothing /\ [Next]_vars => RotationDrainsNothing'
  <2> SUFFICES ASSUME TypeOK, RotationDrainsNothing, [Next]_vars PROVE RotationDrainsNothing'
    OBVIOUS
  <2>1. CASE QueueEcho \/ DrainEchoes
    <3>1. waiting'.scheduler = waiting.scheduler /\ UNCHANGED <<results, stats>>
      BY <2>1 DEF QueueEcho, DrainEchoes, TypeOK
    <3>2. QED  BY <3>1 DEF RotationDrainsNothing
  <2>2. ASSUME NEW t \in Threads, NEW e \in Elapsed, Advance(t, e) PROVE RotationDrainsNothing'
    BY <2>2 DEF Advance, RotationDrainsNothing
  <2>3. ASSUME NEW t \in Threads, NEW l \in Layers, TriggerRotation(t, l) PROVE RotationDrainsNothing'
    <3>1. results'.echoes = results.echoes + (IF policy.batch THEN waiting.scheduler ELSE 0)
      BY <2>3 DEF TriggerRotation, TypeOK, Totals
    <3>2. QED  BY <2>3, <3>1 DEF TriggerRotation, RotationDrainsNothing
  <2>4. ASSUME NEW t \in Threads, FinishAdvance(t) PROVE RotationDrainsNothing'
    <3>1. stats'.echoes = stats.echoes + results.echoes
      BY <2>4 DEF FinishAdvance, TypeOK, Totals
    <3>2. QED  BY <2>4, <3>1 DEF FinishAdvance, RotationDrainsNothing
  <2>5. CASE \/ UNCHANGED vars
             \/ \E e \in EnergyState : SetEnergyState(e)
             \/ \E s \in ThermalState : SetThermalState(s)
             \/ \E l \in Layers : RecordAccess(l)
    BY <2>5 DEF SetEnergyState, SetThermalState, RecordAccess, vars, RotationDrainsNothing
  <2>6. QED  BY <2>1, <2>2, <2>3, <2>4, <2>5 DEF Next
<1>3. QED  BY <1>1, <1>2, TypeInit, TypeStep, PTL DEF Spec
=============================================================================
