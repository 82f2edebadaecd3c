---------------------------- MODULE IntentProofs ----------------------------
(***************************************************************************)
(* Theorems about Intent, for genes, populations, lanes and thresholds of  *)
(* any size: a population is sorted in exactly one way, the engine's best  *)
(* distance never rises within a call, its generations flip no bit that    *)
(* none before them flipped, an applied solution leaves the distance it    *)
(* was returned with, and the solution the authority approves is one the   *)
(* verifier refuses.                                                       *)
(***************************************************************************)
EXTENDS Intent, FunctionTheorems, FiniteSetTheorems, WellFoundedInduction, TLAPS

-----------------------------------------------------------------------------
(* Distances. *)

Lane == {lane \in [len : Nat, on : SUBSET Nat] : lane.on \subseteq 0 .. lane.len - 1}

\* The bits of a lane are finitely many, and so are those a solution flips.
LEMMA LaneFinite == \A lane \in Lane : IsFiniteSet(lane.on)
<1> SUFFICES ASSUME NEW lane \in Lane PROVE IsFiniteSet(lane.on)
  OBVIOUS
<1>1. lane.len \in Nat /\ lane.on \subseteq 0 .. lane.len - 1
  BY DEF Lane
<1>2. IsFiniteSet(0 .. lane.len - 1)
  BY <1>1, FS_Interval
<1>3. QED  BY <1>1, <1>2, FS_Subset

\* So are those a set of genes flips.
LEMMA FlipsFinite == \A genes : IsFiniteSet(Flips(genes)) /\ Flips(genes) \subseteq 0 .. GeneLength - 1
<1> SUFFICES ASSUME NEW genes
             PROVE  IsFiniteSet(Flips(genes)) /\ Flips(genes) \subseteq 0 .. GeneLength - 1
  OBVIOUS
<1>1. IsFiniteSet(0 .. GeneLength - 1)
  BY IntentConstants, FS_Interval
<1>2. Flips(genes) \in SUBSET (0 .. GeneLength - 1)
  BY DEF Flips
<1>3. QED  BY <1>1, <1>2, FS_Subset

\* A distance is a number.
LEMMA FitnessType ==
  ASSUME NEW genes, NEW target \in Lane, NEW state \in Lane
  PROVE  EvaluateFitness(genes, target, state) \in Nat
<1> DEFINE some == {i \in Flips(genes) : i < state.len}
<1>1. IsFiniteSet(some)
  BY FlipsFinite, FS_Subset
<1>2. IsFiniteSet(state.on) /\ IsFiniteSet(target.on)
  BY LaneFinite
<1>3. IsFiniteSet(ApplyGenes(state, genes))
  <2> HIDE DEF some
  <2>1. IsFiniteSet(state.on \ some) /\ IsFiniteSet(some \ state.on)
    BY <1>1, <1>2, FS_Difference
  <2>2. IsFiniteSet((state.on \ some) \cup (some \ state.on))
    BY <2>1, FS_Union
  <2>3. QED  BY <2>2 DEF ApplyGenes, SymDiff, some
<1> DEFINE a == ApplyGenes(state, genes)
<1> HIDE DEF a, some
<1>4. IsFiniteSet(a \ target.on) /\ IsFiniteSet(target.on \ a)
  BY <1>2, <1>3, FS_Difference DEF a
<1>5. IsFiniteSet(SymDiff(a, target.on))
  BY <1>4, FS_Union DEF SymDiff
<1>6. QED  BY <1>5, FS_CardinalityType DEF EvaluateFitness, a

-----------------------------------------------------------------------------
(* Types. *)

Places == {"idle", "detected", "evolving", "panicked"}

Solution == [genes : Genes, fitness : Nat, target : Lane]

Caller == [pc : Places, state : Lane \cup {None}, target : Lane \cup {None},
           generation : Nat, solution : Solution \cup {None}]

EngineTypes == individuals \in [1 .. PopulationSize -> Genes] /\ draw \in Levels

CallerTypes ==
  /\ register \in Lane \cup {None} /\ checkpoint \in Lane \cup {None}
  /\ caller \in Caller
  /\ caller.pc \in {"detected", "evolving"} => caller.target \in Lane
  /\ caller.pc = "evolving" => caller.state \in Lane

Types == EngineTypes /\ CallerTypes

\* The levels of a draw.
LEMMA LevelFacts ==
  /\ Top \in Nat /\ Half \in Nat /\ Rate \in Nat /\ Rate <= Half /\ Rate > 0
  /\ \A d \in Levels : NextLevel(d) \in Levels /\ \A k, i : Drawn(d, k, i) \in Levels
<1>1. Top \in Nat /\ Half \in Nat /\ Rate \in Nat /\ Rate <= Half /\ Rate > 0
  BY IntentConstants
<1>2. ASSUME NEW d \in Levels PROVE NextLevel(d) \in Levels /\ \A k, i : Drawn(d, k, i) \in Levels
  <2>1. NextLevel(d) \in Levels
    BY <1>1 DEF NextLevel, Levels
  <2>2. QED  BY <2>1 DEF Drawn
<1>3. QED  BY <1>1, <1>2

\* A gene is a number.
LEMMA GenesAreNumbers == \A genes \in Genes : \A i \in 1 .. GeneLength : genes[i] \in Nat
BY LevelFacts DEF Genes, Levels

\* The lanes callers write are lanes.
LEMMA LanesAreLanes == Lanes \subseteq Lane
BY IntentConstants DEF Lane

\* A target made from an operation is one.
LEMMA TargetIsLane == \A op : TargetStateFromOp(op) \in Lane
BY IntentConstants DEF TargetStateFromOp, Lane

\* The invariant holds as the engine is constructed.
LEMMA TypesInit == Init => Types
<1> SUFFICES ASSUME Init PROVE Types
  OBVIOUS
<1>1. EngineTypes
  <2>1. draw \in Levels
    BY DEF Init
  <2>2. PICK k \in Crossings(PopulationSize * GeneLength) :
          individuals = [c \in 1 .. PopulationSize |->
            [i \in 1 .. GeneLength |-> Drawn(draw, k, Position(c, i))]]
    BY DEF Init
  <2>3. QED  BY <2>1, <2>2, LevelFacts DEF EngineTypes, Genes
<1>2. CallerTypes
  BY LanesAreLanes DEF Init, CallerTypes, Caller, Places
<1>3. QED  BY <1>1, <1>2 DEF Types

-----------------------------------------------------------------------------
(* A generation. *)

\* What a generation does: the best individual comes first and stays, the others are
\* individuals of before with genes lowered, and the caller goes on or has its solution.
GenerationDoes(order) ==
  LET best == Fitness[order[1]]
  IN  /\ order \in Sorted(Fitness)
      /\ best_fitness' = best
      /\ individuals' \in [1 .. PopulationSize -> Genes] /\ draw' \in Levels
      /\ individuals'[1] = individuals[order[1]]
      /\ \A c \in 1 .. PopulationSize : \E d \in 1 .. PopulationSize :
           \A i \in 1 .. GeneLength : individuals'[c][i] <= individuals[d][i]
      /\ \/ Return(individuals[order[1]], best)
         \/ caller' = [caller EXCEPT !.generation = @ + 1] /\ UNCHANGED gates

\* The elite is not empty.
LEMMA EliteIsSome == EliteCount \in 1 .. PopulationSize
BY IntentConstants DEF EliteCount

\* Children have the genes of the best, some of them lowered.
LEMMA ChildrenAreLower ==
  ASSUME NEW inds \in [1 .. PopulationSize -> Genes], NEW k, NEW kids \in Children(inds, k),
         NEW c \in EliteCount + 1 .. PopulationSize
  PROVE  /\ kids[c] \in Genes
         /\ \A i \in 1 .. GeneLength : kids[c][i] <= inds[1][i]
<1> DEFINE genes == Crossover(SelectParent(inds), SelectParent(inds))
<1>1. inds[1] \in Genes
  BY IntentConstants
<1>2. \A i \in 1 .. GeneLength : inds[1][i] \in Nat /\ genes[i] = inds[1][i]
  <2> SUFFICES ASSUME NEW i \in 1 .. GeneLength
               PROVE  inds[1][i] \in Nat /\ genes[i] = inds[1][i]
    OBVIOUS
  <2>1. inds[1][i] \in Nat
    BY <1>1, GenesAreNumbers
  <2>2. genes[i] = (inds[1][i] + inds[1][i]) \div 2
    BY DEF Crossover, SelectParent
  <2>3. \A g \in Nat : (g + g) \div 2 = g
    OBVIOUS
  <2> HIDE DEF genes
  <2>4. QED  BY <2>1, <2>2, <2>3
<1>3. /\ kids[c] \in Genes
      /\ \A i \in 1 .. GeneLength :
           kids[c][i] \in IF Drawn(draw, k, Position(c - EliteCount, i)) < Rate
                            THEN Perturbed(genes[i]) ELSE {genes[i]}
  BY DEF Children
<1>4. ASSUME NEW i \in 1 .. GeneLength PROVE kids[c][i] <= inds[1][i]
  <2>1. kids[c][i] \in Perturbed(genes[i]) \cup {genes[i]}
    <3> HIDE DEF genes
    <3> QED  BY <1>3
  <2> HIDE DEF genes
  <2>2. inds[1][i] \in Nat /\ kids[c][i] \in Perturbed(inds[1][i]) \cup {inds[1][i]}
    BY <1>2, <2>1
  <2>3. QED  BY <2>2 DEF Perturbed
<1>5. QED  BY <1>3, <1>4

\* Every generation does that.
LEMMA GenerationFacts ==
  ASSUME Types, Generation
  PROVE  \E order : GenerationDoes(order)
<1>1. PICK order \in Sorted(Fitness) :
       LET inds == [c \in 1 .. PopulationSize |-> individuals[order[c]]]
           best == Fitness[order[1]]
       IN  /\ best_fitness' = best
           /\ \/ /\ best < Threshold
                 /\ individuals' = inds
                 /\ Return(inds[1], best)
                 /\ UNCHANGED draw
              \/ /\ best >= Threshold
                 /\ \E k \in Crossings(ChildDraws) : \E kids \in Children(inds, k) :
                      /\ individuals' = Evolved(inds, kids)
                      /\ draw' = Drawn(draw, k, ChildDraws)
                 /\ IF caller.generation + 1 < MaxGenerations
                    THEN caller' = [caller EXCEPT !.generation = @ + 1] /\ UNCHANGED gates
                    ELSE Return(individuals'[1], best)
  BY DEF Generation
<1> DEFINE inds == [c \in 1 .. PopulationSize |-> individuals[order[c]]]
           best == Fitness[order[1]]
<1>2. order \in [1 .. PopulationSize -> 1 .. PopulationSize] /\ 1 \in 1 .. PopulationSize
  BY IntentConstants DEF Sorted
<1>3. /\ inds \in [1 .. PopulationSize -> Genes]
      /\ inds[1] = individuals[order[1]]
      /\ \A c \in 1 .. PopulationSize : order[c] \in 1 .. PopulationSize /\ inds[c] = individuals[order[c]]
  BY <1>2 DEF Types, EngineTypes
<1> HIDE DEF inds, best
<1>4. \A c \in 1 .. PopulationSize, i \in 1 .. GeneLength : inds[c][i] \in Nat
  BY <1>3, GenesAreNumbers
<1>5. ASSUME individuals' = inds, Return(inds[1], best), best_fitness' = best, UNCHANGED draw
      PROVE  GenerationDoes(order)
  <2>1. \A c \in 1 .. PopulationSize : \E d \in 1 .. PopulationSize :
          \A i \in 1 .. GeneLength : individuals'[c][i] <= individuals[d][i]
    BY <1>3, <1>4, <1>5
  <2>2. QED  BY <1>1, <1>3, <1>5, <2>1 DEF GenerationDoes, best, Types, EngineTypes
<1>6. ASSUME NEW k, NEW kids \in Children(inds, k), individuals' = Evolved(inds, kids),
             draw' = Drawn(draw, k, ChildDraws), best_fitness' = best,
             IF caller.generation + 1 < MaxGenerations
               THEN caller' = [caller EXCEPT !.generation = @ + 1] /\ UNCHANGED gates
               ELSE Return(individuals'[1], best)
      PROVE  GenerationDoes(order)
  <2>1. EliteCount \in 1 .. PopulationSize
    BY EliteIsSome
  <2>2. \A c \in EliteCount + 1 .. PopulationSize :
          kids[c] \in Genes /\ \A i \in 1 .. GeneLength : kids[c][i] <= inds[1][i]
    BY <1>3, <1>6, ChildrenAreLower
  <2>3. \A c \in 1 .. PopulationSize : individuals'[c] = IF c <= EliteCount THEN inds[c] ELSE kids[c]
    BY <1>6 DEF Evolved
  <2>4. \A c \in 1 .. PopulationSize : c <= EliteCount \/ c \in EliteCount + 1 .. PopulationSize
    BY <2>1
  <2>5. individuals' \in [1 .. PopulationSize -> Genes]
    BY <1>3, <1>6, <2>2, <2>4 DEF Evolved
  <2>6. individuals'[1] = inds[1]
    BY <1>2, <2>1, <2>3
  <2>7. ASSUME NEW c \in 1 .. PopulationSize
        PROVE  \E d \in 1 .. PopulationSize :
                 \A i \in 1 .. GeneLength : individuals'[c][i] <= individuals[d][i]
    <3>1. CASE c <= EliteCount
      <4>1. individuals'[c] = individuals[order[c]] /\ order[c] \in 1 .. PopulationSize
        BY <1>3, <2>3, <3>1
      <4>2. \A i \in 1 .. GeneLength : individuals'[c][i] <= individuals[order[c]][i]
        BY <1>3, <1>4, <4>1
      <4>3. QED  BY <4>1, <4>2
    <3>2. CASE c \in EliteCount + 1 .. PopulationSize
      <4>1. individuals'[c] = kids[c]
        BY <2>1, <2>3, <3>2
      <4>2. \A i \in 1 .. GeneLength : individuals'[c][i] <= individuals[order[1]][i]
        BY <1>3, <2>2, <3>2, <4>1
      <4>3. QED  BY <1>2, <1>3, <4>2
    <3>3. QED  BY <2>4, <3>1, <3>2
  <2>8. draw' \in Levels
    BY <1>6, LevelFacts DEF Types, EngineTypes
  <2>9. \/ Return(individuals[order[1]], best)
        \/ caller' = [caller EXCEPT !.generation = @ + 1] /\ UNCHANGED gates
    BY <1>3, <1>6, <2>6
  <2>10. QED  BY <1>1, <1>3, <1>6, <2>5, <2>6, <2>7, <2>8, <2>9 DEF GenerationDoes, best
<1>7. QED  BY <1>1, <1>5, <1>6 DEF inds, best

\* The individual a caller gets, and its distance.
LEMMA FitnessOf ==
  ASSUME Types, caller.pc = "evolving", NEW order \in Sorted(Fitness)
  PROVE  /\ \A c \in 1 .. PopulationSize :
              /\ Fitness[c] = EvaluateFitness(individuals[c], caller.target, caller.state)
              /\ Fitness[c] \in Nat
         /\ order[1] \in 1 .. PopulationSize /\ individuals[order[1]] \in Genes
<1>1. caller.target \in Lane /\ caller.state \in Lane
  BY DEF Types, CallerTypes
<1>2. order[1] \in 1 .. PopulationSize
  BY IntentConstants DEF Sorted
<1>3. QED  BY <1>1, <1>2, FitnessType DEF Fitness, Types, EngineTypes

\* A sorted order leaves no individual out, and begins with one at the least distance.
LEMMA SortedFacts ==
  ASSUME NEW fitness, \A c \in 1 .. PopulationSize : fitness[c] \in Nat,
         NEW order \in Sorted(fitness)
  PROVE  \A d \in 1 .. PopulationSize : fitness[order[1]] <= fitness[d]
<1> DEFINE P == 1 .. PopulationSize
<1>1. order \in [P -> P] /\ IsFiniteSet(P) /\ 1 \in P /\ P \subseteq Nat
  <2>1. PopulationSize \in Nat \ {0}
    BY IntentConstants
  <2>2. IsFiniteSet(P)
    BY <2>1, FS_Interval
  <2> HIDE DEF P
  <2>3. order \in [P -> P]
    BY DEF Sorted, P
  <2>4. 1 \in P /\ P \subseteq Nat
    BY <2>1 DEF P
  <2>5. QED  BY <2>2, <2>3, <2>4
<1>2. \A a, b \in P : a < b =>
        \/ fitness[order[a]] < fitness[order[b]]
        \/ fitness[order[a]] = fitness[order[b]] /\ order[a] < order[b]
  BY DEF Sorted
<1> HIDE DEF P
<1>3. ASSUME NEW a \in P, NEW b \in P, a < b PROVE order[a] # order[b]
  <2>1. order[a] \in P /\ order[a] \in Nat /\ fitness[order[a]] \in Nat
    BY <1>1 DEF P
  <2>2. QED  BY <1>2, <1>3, <2>1
<1>4. \A a, b \in P : order[a] = order[b] => a = b
  <2> SUFFICES ASSUME NEW a \in P, NEW b \in P, order[a] = order[b], a # b PROVE FALSE
    OBVIOUS
  <2>1. a < b \/ b < a
    BY <1>1
  <2>2. QED  BY <1>3, <2>1
<1>5. order \in Injection(P, P)
  BY <1>1, <1>4, Fun_IsInj
<1>6. order \in Surjection(P, P)
  BY <1>1, <1>5, FS_Injection
<1>7. ASSUME NEW d \in P PROVE fitness[order[1]] <= fitness[d]
  <2>1. PICK c \in P : order[c] = d
    BY <1>6, Fun_SurjectionProperties
  <2>2. order[1] \in P /\ fitness[order[1]] \in Nat /\ fitness[d] \in Nat
    BY <1>1 DEF P
  <2>3. CASE c = 1
    BY <2>1, <2>2, <2>3
  <2>4. CASE c # 1
    <3>1. 1 < c
      BY <2>4 DEF P
    <3>2. fitness[order[1]] < fitness[order[c]] \/ fitness[order[1]] = fitness[order[c]]
      BY <1>1, <1>2, <3>1
    <3>3. QED  BY <2>1, <2>2, <3>2
  <2>5. QED  BY <2>3, <2>4
<1>8. QED  BY <1>7 DEF P

-----------------------------------------------------------------------------
(* Type correctness. *)

\* The caller keeps a solution.
LEMMA ReturnTypes ==
  ASSUME Types, caller.pc = "evolving", NEW genes \in Genes, NEW fitness \in Nat,
         Return(genes, fitness)
  PROVE  /\ caller' \in Caller /\ caller'.pc = "idle" /\ caller'.generation = 0
         /\ caller'.solution = [genes |-> genes, fitness |-> fitness, target |-> caller.target]
         /\ caller'.solution \in Solution
         /\ gates' = [approved |-> FALSE, verified |-> FALSE, against |-> None]
<1> DEFINE s == [genes |-> genes, fitness |-> fitness, target |-> caller.target]
<1>1. s \in Solution
  BY DEF Types, CallerTypes, Solution
<1>2. /\ caller' = [caller EXCEPT !.pc = "idle", !.generation = 0, !.state = None, !.target = None,
                                 !.solution = s]
      /\ gates' = [approved |-> FALSE, verified |-> FALSE, against |-> None]
  BY DEF Return
<1> HIDE DEF s
<1>3. caller' \in Caller /\ caller'.pc = "idle" /\ caller'.generation = 0 /\ caller'.solution = s
  BY <1>1, <1>2 DEF Types, CallerTypes, Caller, Places
<1>4. QED  BY <1>1, <1>2, <1>3 DEF s

\* What a generation leaves of the caller: it goes on as it was, or it is idle with the
\* best individual, whose distance is the best.
LEMMA GenerationTypes ==
  ASSUME Types, Generation
  PROVE  /\ Types'
         /\ \/ /\ caller'.pc = "idle" /\ caller'.generation = 0
               /\ caller'.solution.fitness = EvaluateFitness(caller'.solution.genes,
                                                              caller'.solution.target, caller.state)
               /\ gates' = [approved |-> FALSE, verified |-> FALSE, against |-> None]
            \/ /\ caller' = [caller EXCEPT !.generation = @ + 1]
               /\ UNCHANGED gates
               /\ best_fitness' = EvaluateFitness(individuals'[1], caller.target, caller.state)
<1>1. PICK order : GenerationDoes(order)
  BY GenerationFacts
<1> DEFINE best == Fitness[order[1]]
           g == individuals[order[1]]
<1>2. caller.pc = "evolving" /\ UNCHANGED <<register, checkpoint>>
  BY DEF Generation, judges
<1>3. /\ best = EvaluateFitness(g, caller.target, caller.state)
      /\ best \in Nat /\ g \in Genes
  BY <1>1, <1>2, FitnessOf DEF GenerationDoes
<1>4. EngineTypes' /\ best_fitness' = best /\ individuals'[1] = g
  BY <1>1 DEF GenerationDoes, EngineTypes
<1> HIDE DEF best, g
<1>5. \/ Return(g, best)
      \/ caller' = [caller EXCEPT !.generation = @ + 1] /\ UNCHANGED gates
  BY <1>1 DEF GenerationDoes, best, g
<1>6. CASE Return(g, best)
  <2>1. /\ caller' \in Caller /\ caller'.pc = "idle" /\ caller'.generation = 0
        /\ caller'.solution = [genes |-> g, fitness |-> best, target |-> caller.target]
        /\ gates' = [approved |-> FALSE, verified |-> FALSE, against |-> None]
    BY <1>2, <1>3, <1>6, ReturnTypes
  <2>2. CallerTypes'
    BY <1>2, <2>1 DEF Types, CallerTypes
  <2>3. QED  BY <1>3, <1>4, <2>1, <2>2 DEF Types
<1>7. CASE caller' = [caller EXCEPT !.generation = @ + 1] /\ UNCHANGED gates
  <2>1. caller' \in Caller /\ caller'.pc = caller.pc /\ caller'.target = caller.target
          /\ caller'.state = caller.state
    BY <1>7 DEF Types, CallerTypes, Caller
  <2>2. CallerTypes'
    BY <1>2, <2>1 DEF Types, CallerTypes
  <2>3. QED  BY <1>3, <1>4, <1>7, <2>2 DEF Types
<1>8. QED  BY <1>5, <1>6, <1>7

\* A solution applied to a register of its length.
LEMMA AppliedType ==
  ASSUME NEW lane \in Lane, lane.len = GeneLength, NEW genes
  PROVE  /\ [lane EXCEPT !.on = SymDiff(@, GenesToDelta(genes).on)] \in Lane
         /\ [lane EXCEPT !.on = SymDiff(@, GenesToDelta(genes).on)].on = ApplyGenes(lane, genes)
<1>1. Flips(genes) \subseteq 0 .. GeneLength - 1 /\ GeneLength \in Nat
  BY FlipsFinite, IntentConstants
<1>2. lane \in [len : Nat, on : SUBSET Nat] /\ lane.on \subseteq 0 .. GeneLength - 1
  BY DEF Lane
<1>3. GenesToDelta(genes).on = Flips(genes)
  BY DEF GenesToDelta
<1>4. {i \in Flips(genes) : i < lane.len} = Flips(genes)
  BY <1>1
<1>5. SymDiff(lane.on, Flips(genes)) \subseteq 0 .. GeneLength - 1
  BY <1>1, <1>2 DEF SymDiff
<1> DEFINE on == SymDiff(lane.on, Flips(genes))
<1> HIDE DEF on
<1>6. [lane EXCEPT !.on = on] \in Lane /\ [lane EXCEPT !.on = on].on = on
  BY <1>1, <1>2, <1>5 DEF Lane, on
<1>7. QED  BY <1>3, <1>4, <1>6 DEF ApplyGenes, on

\* What callers do with a solution, and with the register.
LEMMA ApplyFacts ==
  ASSUME Types, ApplySolution
  PROVE  /\ caller.pc = "idle" /\ caller.solution \in Solution
         /\ register' \in Lane \cup {None}
         /\ register # None => register \in Lane /\ register' \in Lane
              /\ register'.on = ApplyGenes(register, caller.solution.genes)
         /\ stale' = (stale \/ register' # register)
         /\ UNCHANGED <<engine, draw, judges, caller, gates>>
<1>1. caller.pc = "idle" /\ caller.solution \in Solution
  BY DEF ApplySolution, Solved, Types, CallerTypes, Caller
<1>2. register = None => register' = None
  BY DEF ApplySolution
<1>3. ASSUME register # None
      PROVE  /\ register \in Lane /\ register' \in Lane
             /\ register'.on = ApplyGenes(register, caller.solution.genes)
  <2>1. register \in Lane /\ register.len = GeneLength
    BY <1>3 DEF ApplySolution, Types, CallerTypes
  <2>2. register' = [register EXCEPT !.on = SymDiff(@, GenesToDelta(caller.solution.genes).on)]
    BY <1>3 DEF ApplySolution
  <2>3. QED  BY <2>1, <2>2, AppliedType
<1>4. stale' = (stale \/ register' # register) /\ UNCHANGED <<engine, draw, judges, caller, gates>>
  BY DEF ApplySolution
<1>5. QED  BY <1>1, <1>2, <1>3, <1>4

\* Every step keeps the types.
LEMMA TypesStep == Types /\ [Next]_vars => Types'
<1> SUFFICES ASSUME Types, [Next]_vars PROVE Types'
  OBVIOUS
<1> USE DEF engine, judges
<1>1. ASSUME NEW op, NEW urgent, DetectIntent(op, urgent) PROVE Types'
  <2>1. /\ caller' = [caller EXCEPT !.pc = "detected", !.target = TargetStateFromOp(op)]
        /\ UNCHANGED <<register, checkpoint, individuals, draw>>
    BY <1>1 DEF DetectIntent
  <2>2. TargetStateFromOp(op) \in Lane
    BY TargetIsLane
  <2> DEFINE t == TargetStateFromOp(op)
  <2> HIDE DEF t
  <2>3. caller' \in Caller /\ caller'.pc = "detected" /\ caller'.target = t
    BY <2>1, <2>2 DEF Types, CallerTypes, Caller, Places, t
  <2>4. QED  BY <2>1, <2>2, <2>3 DEF Types, EngineTypes, CallerTypes, t
<1>2. ASSUME NEW target \in Lanes \cup {None}, BeginEvolve(target) PROVE Types'
  <2> DEFINE t == IF target = None THEN caller.target ELSE target
  <2>1. /\ caller' = [caller EXCEPT !.pc = "evolving", !.state = register, !.target = t]
        /\ register # None /\ caller.pc = "detected"
        /\ UNCHANGED <<register, checkpoint, individuals, draw>>
    BY <1>2 DEF BeginEvolve
  <2>2. t \in Lane /\ register \in Lane
    BY <2>1, LanesAreLanes DEF Types, CallerTypes
  <2> HIDE DEF t
  <2>3. caller' \in Caller /\ caller'.target = t /\ caller'.state = register
    BY <2>1, <2>2 DEF Types, CallerTypes, Caller, Places
  <2>4. QED  BY <2>1, <2>2, <2>3 DEF Types, EngineTypes, CallerTypes
<1>3. ASSUME EvolvePanic \/ ApplyPanic PROVE Types'
  <2>1. /\ caller' = [caller EXCEPT !.pc = "panicked"]
        /\ UNCHANGED <<register, checkpoint, individuals, draw>>
    BY <1>3 DEF EvolvePanic, ApplyPanic
  <2>2. caller' \in Caller /\ caller'.pc = "panicked"
    BY <2>1 DEF Types, CallerTypes, Caller, Places
  <2>3. QED  BY <2>1, <2>2 DEF Types, EngineTypes, CallerTypes
<1>4. CASE Generation
  BY <1>4, GenerationTypes
<1>5. CASE OtherEngineDraws
  BY <1>5, LevelFacts DEF OtherEngineDraws, Types, EngineTypes, CallerTypes
<1>6. CASE ApplySolution
  BY <1>6, ApplyFacts DEF Types, EngineTypes, CallerTypes
<1>7. CASE Checkpoint
  BY <1>7 DEF Checkpoint, Types, EngineTypes, CallerTypes
<1>8. CASE Rollback
  BY <1>8 DEF Rollback, Types, EngineTypes, CallerTypes
<1>9. ASSUME NEW lane \in Lanes, OtherWrite(lane) PROVE Types'
  BY <1>9, LanesAreLanes DEF OtherWrite, Types, EngineTypes, CallerTypes
<1>10. ASSUME UNCHANGED <<register, checkpoint, caller, individuals, draw>> PROVE Types'
  BY <1>10 DEF Types, EngineTypes, CallerTypes
<1>11. CASE \/ \E op \in Ops \cup {None}, urgent \in BOOLEAN : DetectNothing(op, urgent)
            \/ Approve \/ AddTrajectoryNode
            \/ \E scored \in BOOLEAN : Verify(scored)
            \/ \E i \in 1 .. MaxCalls, outcome \in {"Success", "Rejected"} : RecordOutcome(i, outcome)
            \/ \E hash \in Hashes : RecordIntent(hash)
            \/ \E i \in 1 .. MaxCalls : ConfirmIntent(i)
            \/ UNCHANGED vars
  <2>1. UNCHANGED <<register, checkpoint, caller, individuals, draw>>
    BY <1>11 DEF DetectNothing, Approve, AddTrajectoryNode, Verify, RecordOutcome, RecordIntent,
                 ConfirmIntent, vars
  <2>2. QED  BY <1>10, <2>1
<1>12. QED
  BY <1>1, <1>2, <1>3, <1>4, <1>5, <1>6, <1>7, <1>8, <1>9, <1>11 DEF Next

\* Individuals are genes of the engine's length, targets and states are lanes whose bits
\* are within their length, and a solution is genes, a distance and a target.
THEOREM TypeCorrect == Spec => []Types
<1>1. QED  BY TypesInit, TypesStep, PTL DEF Spec

-----------------------------------------------------------------------------
(* Sorting. *)

\* Which individual sort_by puts first.
Before(fitness, a, b) ==
  \/ fitness[a] < fitness[b]
  \/ fitness[a] = fitness[b] /\ a < b

Place(fitness, a) == 1 + Cardinality({b \in 1 .. PopulationSize : Before(fitness, b, a)})

\* Of two individuals, one is put first.
LEMMA BeforeIsTotal ==
  ASSUME NEW fitness, NEW a \in Nat, NEW b \in Nat, fitness[a] \in Nat, fitness[b] \in Nat
  PROVE  Before(fitness, a, b) \/ Before(fitness, b, a) \/ a = b
<1>1. \A x, y \in Nat : x < y \/ y < x \/ x = y
  OBVIOUS
<1>2. a < b \/ b < a \/ a = b
  BY <1>1
<1>3. fitness[a] < fitness[b] \/ fitness[b] < fitness[a] \/ fitness[a] = fitness[b]
  BY <1>1
<1>4. QED  BY <1>2, <1>3, Zenon DEF Before

\* It orders them: each has a place of its own, the later the more come before.
LEMMA PlacesInOrder ==
  ASSUME NEW fitness, \A c \in 1 .. PopulationSize : fitness[c] \in Nat
  PROVE  /\ \A a \in 1 .. PopulationSize : Place(fitness, a) \in 1 .. PopulationSize
         /\ \A a, b \in 1 .. PopulationSize :
              Before(fitness, a, b) <=> Place(fitness, a) < Place(fitness, b)
<1> DEFINE P == 1 .. PopulationSize
           Earlier(a) == {b \in P : Before(fitness, b, a)}
<1>1. PopulationSize \in Nat /\ IsFiniteSet(P) /\ Cardinality(P) = PopulationSize /\ P \subseteq Nat
  <2>1. PopulationSize \in Nat
    BY IntentConstants
  <2>2. IsFiniteSet(1 .. PopulationSize)
    BY <2>1, FS_Interval
  <2>3. Cardinality(1 .. PopulationSize) = IF 1 > PopulationSize THEN 0 ELSE PopulationSize - 1 + 1
    BY <2>1, FS_Interval
  <2>4. Cardinality(1 .. PopulationSize) = PopulationSize
    BY <2>1, <2>3
  <2>5. QED  BY <2>1, <2>2, <2>4
<1>2. \A a \in P : /\ IsFiniteSet(Earlier(a)) /\ Cardinality(Earlier(a)) \in Nat
                   /\ a \notin Earlier(a)
  <2> SUFFICES ASSUME NEW a \in P
               PROVE  /\ IsFiniteSet(Earlier(a)) /\ Cardinality(Earlier(a)) \in Nat
                      /\ a \notin Earlier(a)
    OBVIOUS
  <2>1. ~ Before(fitness, a, a)
    BY <1>1 DEF Before
  <2>2. Earlier(a) \in SUBSET P
    OBVIOUS
  <2>3. a \notin Earlier(a)
    BY <2>1
  <2> HIDE DEF P, Earlier
  <2>4. IsFiniteSet(Earlier(a))
    BY <1>1, <2>2, FS_Subset
  <2>5. QED  BY <2>3, <2>4, FS_CardinalityType
<1>3. ASSUME NEW a \in P, NEW b \in P, Before(fitness, a, b)
      PROVE  Cardinality(Earlier(a)) < Cardinality(Earlier(b))
  <2>1. Earlier(a) \in SUBSET Earlier(b)
    <3> SUFFICES ASSUME NEW c \in P, Before(fitness, c, a) PROVE Before(fitness, c, b)
      OBVIOUS
    <3>1. a \in Nat /\ b \in Nat /\ c \in Nat
      BY <1>1
    <3>2. fitness[a] \in Nat /\ fitness[b] \in Nat /\ fitness[c] \in Nat
      OBVIOUS
    <3> HIDE DEF P
    <3>3. QED  BY <1>3, <3>1, <3>2 DEF Before
  <2>2. a \in Earlier(b)
    BY <1>3
  <2>3. a \notin Earlier(a) /\ IsFiniteSet(Earlier(b))
    BY <1>2
  <2>4. Cardinality(Earlier(a)) \in Nat /\ Cardinality(Earlier(b)) \in Nat
    BY <1>2
  <2> HIDE DEF P, Earlier
  <2>5. Earlier(a) # Earlier(b)
    BY <2>2, <2>3
  <2>6. Cardinality(Earlier(a)) <= Cardinality(Earlier(b)) /\ Cardinality(Earlier(a)) # Cardinality(Earlier(b))
    BY <2>1, <2>3, <2>5, FS_Subset
  <2>7. QED  BY <2>4, <2>6
<1>4. ASSUME NEW a \in P, NEW b \in P
      PROVE  Before(fitness, a, b) \/ Before(fitness, b, a) \/ a = b
  <2>1. a \in Nat /\ b \in Nat /\ fitness[a] \in Nat /\ fitness[b] \in Nat
    BY <1>1
  <2> HIDE DEF P
  <2>2. QED  BY <2>1, BeforeIsTotal
<1>5. \A a \in P : Place(fitness, a) \in P
  <2> SUFFICES ASSUME NEW a \in P PROVE Place(fitness, a) \in P
    OBVIOUS
  <2>1. Earlier(a) \in SUBSET P /\ Earlier(a) # P
    BY <1>2
  <2>2. Place(fitness, a) = 1 + Cardinality(Earlier(a))
    BY DEF Place
  <2>3. Cardinality(Earlier(a)) \in Nat
    BY <1>2
  <2>4. Cardinality(Earlier(a)) <= PopulationSize /\ Cardinality(Earlier(a)) # PopulationSize
    <3> HIDE DEF P, Earlier
    <3> QED  BY <1>1, <2>1, FS_Subset
  <2> HIDE DEF Earlier
  <2>5. QED  BY <1>1, <2>2, <2>3, <2>4
<1>6. ASSUME NEW a \in P, NEW b \in P
      PROVE  Before(fitness, a, b) <=> Place(fitness, a) < Place(fitness, b)
  <2>1. Place(fitness, a) = 1 + Cardinality(Earlier(a)) /\ Place(fitness, b) = 1 + Cardinality(Earlier(b))
    BY DEF Place
  <2>2. Cardinality(Earlier(a)) \in Nat /\ Cardinality(Earlier(b)) \in Nat
    BY <1>2
  <2>3. /\ Before(fitness, a, b) => Cardinality(Earlier(a)) < Cardinality(Earlier(b))
        /\ Before(fitness, b, a) => Cardinality(Earlier(b)) < Cardinality(Earlier(a))
        /\ a = b => Cardinality(Earlier(a)) = Cardinality(Earlier(b))
    BY <1>3
  <2> HIDE DEF P, Earlier
  <2>4. QED  BY <1>4, <2>1, <2>2, <2>3
<1>7. QED  BY <1>5, <1>6

\* A set of numbers that is not empty has a least one.
LEMMA LeastNumber ==
  ASSUME NEW S, S \subseteq Nat, S # {}
  PROVE  \E i \in S : \A j \in S : i <= j
<1>1. PICK i \in S : \A j \in S : <<j, i>> \notin OpToRel(<, Nat)
  BY WFMin, NatLessThanWellFounded, Zenon
<1>2. \A j \in S : j \in Nat /\ i \in Nat
  OBVIOUS
<1>3. \A j \in S : ~(j < i)
  BY <1>1, <1>2, Zenon DEF OpToRel
<1>4. QED  BY <1>2, <1>3

\* A function of the numbers up to n into themselves that rises leaves each where it is.
LEMMA RisingIsIdentity ==
  ASSUME NEW n \in Nat, NEW f \in [1 .. n -> 1 .. n],
         \A a, b \in 1 .. n : a < b => f[a] < f[b]
  PROVE  \A a \in 1 .. n : f[a] = a
<1>1. \A a \in 1 .. n : f[a] >= a
  <2> DEFINE S == {a \in 1 .. n : ~ (f[a] >= a)}
  <2> SUFFICES ASSUME S # {} PROVE FALSE
    OBVIOUS
  <2>1. PICK m \in S : \A j \in S : m <= j
    <3>1. S \subseteq Nat
      OBVIOUS
    <3> HIDE DEF S
    <3>2. QED  BY <3>1, LeastNumber
  <2>2. m \in 1 .. n /\ f[m] \in 1 .. n /\ f[m] < m
    OBVIOUS
  <2>3. f[f[m]] \in 1 .. n /\ f[f[m]] < f[m]
    BY <2>2
  <2>4. f[m] \in S
    BY <2>2, <2>3
  <2> HIDE DEF S
  <2>5. QED  BY <2>1, <2>2, <2>4
<1>2. \A a \in 1 .. n : f[a] <= a
  <2> DEFINE S == {n - a : a \in {a \in 1 .. n : ~ (f[a] <= a)}}
  <2> SUFFICES ASSUME S # {} PROVE FALSE
    OBVIOUS
  <2>1. PICK m \in S : \A j \in S : m <= j
    <3>1. S \subseteq Nat
      <4> SUFFICES ASSUME NEW a \in 1 .. n PROVE n - a \in Nat
        OBVIOUS
      <4> QED  OBVIOUS
    <3> HIDE DEF S
    <3>2. QED  BY <3>1, LeastNumber
  <2>2. PICK a \in 1 .. n : m = n - a /\ ~ (f[a] <= a)
    OBVIOUS
  <2>3. f[a] \in 1 .. n /\ a < f[a]
    BY <2>2
  <2>4. f[f[a]] \in 1 .. n /\ f[a] < f[f[a]]
    BY <2>3
  <2>5. n - f[a] \in S
    BY <2>3, <2>4
  <2> HIDE DEF S
  <2>6. QED  BY <2>1, <2>2, <2>3, <2>5
<1>3. \A a \in 1 .. n : f[a] \in Nat /\ a \in Nat
  OBVIOUS
<1>4. QED  BY <1>1, <1>2, <1>3

\* A stable sort by fitness has exactly one outcome, whatever the distances.
LEMMA SortedIsOne ==
  ASSUME NEW fitness, \A c \in 1 .. PopulationSize : fitness[c] \in Nat
  PROVE  \E order : Sorted(fitness) = {order}
<1> DEFINE P == 1 .. PopulationSize
           place == [a \in P |-> Place(fitness, a)]
           order == [n \in P |-> CHOOSE a \in P : place[a] = n]
<1>1. IsFiniteSet(P) /\ P \subseteq Nat
  <2>1. IsFiniteSet(1 .. PopulationSize)
    BY IntentConstants, FS_Interval
  <2>2. QED  BY <2>1, IntentConstants
<1>2. /\ \A a \in P : place[a] \in P
      /\ \A a, b \in P : Before(fitness, a, b) <=> place[a] < place[b]
  BY PlacesInOrder
<1>3. \A a, b \in P : Before(fitness, a, b) \/ Before(fitness, b, a) \/ a = b
  <2> SUFFICES ASSUME NEW a \in P, NEW b \in P
               PROVE  Before(fitness, a, b) \/ Before(fitness, b, a) \/ a = b
    OBVIOUS
  <2>1. a \in Nat /\ b \in Nat /\ fitness[a] \in Nat /\ fitness[b] \in Nat
    BY <1>1
  <2> HIDE DEF P, place
  <2>2. QED  BY <2>1, BeforeIsTotal
<1>4. \A a, b \in P : place[a] = place[b] => a = b
  <2>1. \A a \in P : place[a] \in Nat
    BY <1>1, <1>2
  <2> HIDE DEF P, place
  <2>2. QED  BY <1>2, <1>3, <2>1
<1>5. place \in Surjection(P, P)
  <2>1. place \in [P -> P]
    <3> HIDE DEF P
    <3> QED  BY <1>2
  <2> HIDE DEF P, place
  <2>3. place \in Injection(P, P)
    BY <1>4, <2>1 DEF Injection, IsInjective
  <2>4. QED  BY <1>1, <2>3, FS_Injection
<1> HIDE DEF place
<1>6. \A n \in P : order[n] \in P /\ place[order[n]] = n
  <2> SUFFICES ASSUME NEW n \in P PROVE order[n] \in P /\ place[order[n]] = n
    OBVIOUS
  <2>1. \E a \in P : place[a] = n
    BY <1>5 DEF Surjection
  <2>2. QED  BY <2>1
<1>7. order \in [P -> P]
  BY <1>6
<1> HIDE DEF order
<1>8. order \in Sorted(fitness)
  <2>1. ASSUME NEW a \in P, NEW b \in P, a < b PROVE Before(fitness, order[a], order[b])
    BY <1>2, <1>6, <2>1
  <2>2. QED  BY <1>7, <2>1 DEF Sorted, Before
<1>9. ASSUME NEW o \in Sorted(fitness) PROVE o = order
  <2>1. o \in [P -> P] /\ \A a, b \in P : a < b => Before(fitness, o[a], o[b])
    <3>1. o \in [P -> P]
      BY DEF Sorted
    <3>2. \A a, b \in P : a < b => \/ fitness[o[a]] < fitness[o[b]]
                                   \/ fitness[o[a]] = fitness[o[b]] /\ o[a] < o[b]
      BY DEF Sorted
    <3> HIDE DEF P
    <3>3. QED  BY <3>1, <3>2, Zenon DEF Before
  <2> DEFINE f == [n \in P |-> place[o[n]]]
  <2>2. f \in [P -> P] /\ \A a, b \in P : a < b => f[a] < f[b]
    <3> HIDE DEF P
    <3> QED  BY <1>2, <2>1
  <2>3. \A n \in P : f[n] = n
    <3>1. PopulationSize \in Nat
      BY IntentConstants
    <3> HIDE DEF f
    <3>2. QED  BY <2>2, <3>1, RisingIsIdentity
  <2>4. \A n \in P : o[n] = order[n]
    <3> SUFFICES ASSUME NEW n \in P PROVE o[n] = order[n]
      OBVIOUS
    <3>1. o[n] \in P /\ place[o[n]] = n
      BY <2>1, <2>3
    <3>2. order[n] \in P /\ place[order[n]] = n
      BY <1>6
    <3>3. QED  BY <1>4, <3>1, <3>2, Zenon
  <2>5. order = [n \in P |-> order[n]] /\ o = [n \in P |-> o[n]]
    BY <1>7, <2>1
  <2>6. QED  BY <2>4, <2>5, Zenon
<1>10. QED  BY <1>8, <1>9

\* While the engine evolves, sorting its individuals has exactly one outcome: no
\* generation (lib.rs:655) waits for an order, and none may choose among several.
THEOREM OneOrderToSortBy == Spec => [](caller.pc = "evolving" => \E order : Sorted(Fitness) = {order})
<1>1. Types => (caller.pc = "evolving" => \E order : Sorted(Fitness) = {order})
  <2> SUFFICES ASSUME Types, caller.pc = "evolving" PROVE \E order : Sorted(Fitness) = {order}
    OBVIOUS
  <2>1. caller.target \in Lane /\ caller.state \in Lane
    BY DEF Types, CallerTypes
  <2>2. \A c \in 1 .. PopulationSize : Fitness[c] \in Nat
    BY <2>1, FitnessType DEF Fitness
  <2>3. QED  BY <2>2, SortedIsOne
<1>2. QED  BY <1>1, TypeCorrect, PTL

-----------------------------------------------------------------------------
(* Evolution. *)

\* Steps other than a generation leave the engine alone.
LEMMA OtherSteps ==
  ASSUME [Next]_vars
  PROVE  Generation \/ UNCHANGED <<individuals, best_fitness>>
BY DEF Next, vars, engine, DetectIntent, DetectNothing, BeginEvolve, EvolvePanic, OtherEngineDraws,
       Approve, ApplySolution, ApplyPanic, Checkpoint, Rollback, AddTrajectoryNode, Verify,
       RecordOutcome, RecordIntent, ConfirmIntent, OtherWrite

\* Only detection, evolution and panics move the caller.
LEMMA CallerSteps ==
  ASSUME [Next]_vars
  PROVE  \/ Generation
         \/ \E op : caller.pc = "idle" /\ caller' = [caller EXCEPT !.pc = "detected",
                                                                !.target = TargetStateFromOp(op)]
         \/ \E t : caller.pc = "detected" /\ caller' = [caller EXCEPT !.pc = "evolving",
                                                   !.state = register, !.target = t]
         \/ caller' = [caller EXCEPT !.pc = "panicked"]
         \/ UNCHANGED caller
<1>1. ASSUME NEW op, NEW urgent, DetectIntent(op, urgent)
      PROVE  caller.pc = "idle" /\ caller' = [caller EXCEPT !.pc = "detected",
                                                          !.target = TargetStateFromOp(op)]
  BY <1>1 DEF DetectIntent, Grow
<1>2. ASSUME NEW target, BeginEvolve(target)
      PROVE  \E t : caller.pc = "detected" /\ caller' = [caller EXCEPT !.pc = "evolving",
                                                   !.state = register, !.target = t]
  BY <1>2 DEF BeginEvolve
<1>3. ASSUME EvolvePanic \/ ApplyPanic PROVE caller' = [caller EXCEPT !.pc = "panicked"]
  BY <1>3 DEF EvolvePanic, ApplyPanic
<1>4. CASE \/ \E op \in Ops \cup {None}, urgent \in BOOLEAN : DetectNothing(op, urgent)
           \/ OtherEngineDraws \/ Approve \/ ApplySolution \/ Checkpoint \/ Rollback
           \/ AddTrajectoryNode
           \/ \E scored \in BOOLEAN : Verify(scored)
           \/ \E i \in 1 .. MaxCalls, outcome \in {"Success", "Rejected"} : RecordOutcome(i, outcome)
           \/ \E hash \in Hashes : RecordIntent(hash)
           \/ \E i \in 1 .. MaxCalls : ConfirmIntent(i)
           \/ \E lane \in Lanes : OtherWrite(lane)
           \/ UNCHANGED vars
  BY <1>4 DEF vars, DetectNothing, OtherEngineDraws, Approve, ApplySolution, Checkpoint, Rollback,
              AddTrajectoryNode, Verify, RecordOutcome, RecordIntent, ConfirmIntent, OtherWrite
<1>5. QED  BY <1>1, <1>2, <1>3, <1>4 DEF Next

\* Within a call, the last best distance recorded is that of the individual kept first.
BestInv ==
  /\ caller.pc \in {"idle", "detected"} => caller.generation = 0
  /\ caller.pc = "evolving" /\ caller.generation > 0 =>
       best_fitness = EvaluateFitness(individuals[1], caller.target, caller.state)

\* Every step keeps it.
LEMMA BestStep == Types /\ BestInv /\ [Next]_vars => BestInv'
<1> SUFFICES ASSUME Types, BestInv, [Next]_vars PROVE BestInv'
  OBVIOUS
<1>0. caller \in Caller
  BY DEF Types, CallerTypes
<1>1. CASE Generation
  <2>1. caller.pc = "evolving"
    BY <1>1 DEF Generation
  <2>2. CASE caller' = [caller EXCEPT !.generation = @ + 1]
               /\ best_fitness' = EvaluateFitness(individuals'[1], caller.target, caller.state)
    <3>1. caller'.pc = "evolving" /\ caller'.target = caller.target /\ caller'.state = caller.state
      BY <1>0, <2>1, <2>2 DEF Caller
    <3>2. QED  BY <2>2, <3>1 DEF BestInv
  <2>3. CASE caller'.pc = "idle" /\ caller'.generation = 0
    BY <2>3 DEF BestInv
  <2>4. QED  BY <1>1, <2>2, <2>3, GenerationTypes
<1>2. CASE ~Generation
  <2>1. UNCHANGED <<individuals, best_fitness>>
    BY <1>2, OtherSteps
  <2>2. CASE \E op : caller.pc = "idle" /\ caller' = [caller EXCEPT !.pc = "detected",
                                                                !.target = TargetStateFromOp(op)]
    <3>1. PICK t : caller' = [caller EXCEPT !.pc = "detected", !.target = t]
      BY <2>2
    <3>2. caller'.pc = "detected" /\ caller'.generation = caller.generation
      BY <1>0, <3>1 DEF Caller
    <3>3. QED  BY <2>2, <3>2 DEF BestInv
  <2>3. CASE \E t : caller.pc = "detected" /\ caller' = [caller EXCEPT !.pc = "evolving",
                                                   !.state = register, !.target = t]
    <3>1. caller'.pc = "evolving" /\ caller'.generation = 0
      BY <1>0, <2>3 DEF Caller, BestInv
    <3>2. QED  BY <3>1 DEF BestInv
  <2>4. CASE caller' = [caller EXCEPT !.pc = "panicked"]
    <3>1. caller'.pc = "panicked"
      BY <1>0, <2>4 DEF Caller
    <3>2. QED  BY <3>1 DEF BestInv
  <2>5. CASE UNCHANGED caller
    BY <2>1, <2>5 DEF BestInv
  <2>6. QED  BY <1>2, <2>2, <2>3, <2>4, <2>5, CallerSteps
<1>3. QED  BY <1>1, <1>2

\* The engine (lib.rs:623) never records a worse best distance in a later generation of
\* the same call: the best individual is among the elite, and the elite is not mutated.
THEOREM BestOnlyImproves == Spec => BestNeverWorsens
<1>1. Init => BestInv
  BY DEF Init, BestInv
<1>2. Types /\ BestInv /\ [Next]_vars =>
        [caller.pc = "evolving" /\ caller.generation > 0 => best_fitness' <= best_fitness]_vars
  <2> SUFFICES ASSUME Types, BestInv, [Next]_vars, caller.pc = "evolving", caller.generation > 0
               PROVE  best_fitness' <= best_fitness
    OBVIOUS
  <2>1. caller.target \in Lane /\ caller.state \in Lane
    BY DEF Types, CallerTypes
  <2>2. best_fitness = EvaluateFitness(individuals[1], caller.target, caller.state)
    BY DEF BestInv
  <2>3. best_fitness \in Nat
    BY <2>1, <2>2, FitnessType
  <2>4. CASE Generation
    <3>1. PICK order : GenerationDoes(order)
      BY <2>4, GenerationFacts
    <3>2. order \in Sorted(Fitness) /\ best_fitness' = Fitness[order[1]]
      BY <3>1 DEF GenerationDoes
    <3>3. \A c \in 1 .. PopulationSize :
            /\ Fitness[c] = EvaluateFitness(individuals[c], caller.target, caller.state)
            /\ Fitness[c] \in Nat
      BY <3>2, FitnessOf
    <3>4. 1 \in 1 .. PopulationSize
      BY IntentConstants
    <3>5. Fitness[order[1]] <= Fitness[1]
      BY <3>2, <3>3, <3>4, SortedFacts
    <3>6. QED  BY <2>2, <3>2, <3>3, <3>4, <3>5
  <2>5. CASE UNCHANGED best_fitness
    BY <2>3, <2>5
  <2>6. QED  BY <2>4, <2>5, OtherSteps
<1>3. QED  BY <1>1, <1>2, TypesInit, TypesStep, BestStep, PTL DEF Spec, BestNeverWorsens

\* No generation (GAPopulation::evolve) flips a bit that no individual before it flipped,
\* so a target that needs another bit than the first population has is never reached.
THEOREM EvolutionOnlyClearsBits == Spec => EvolutionAddsNoBit
<1>1. Types /\ [Next]_vars =>
        UNION {Flips(individuals'[c]) : c \in 1 .. PopulationSize}
          \subseteq UNION {Flips(individuals[c]) : c \in 1 .. PopulationSize}
  <2> SUFFICES ASSUME Types, [Next]_vars, NEW c \in 1 .. PopulationSize, NEW i \in Flips(individuals'[c])
               PROVE  \E d \in 1 .. PopulationSize : i \in Flips(individuals[d])
    OBVIOUS
  <2>1. CASE Generation
    <3>1. PICK order : GenerationDoes(order)
      BY <2>1, GenerationFacts
    <3>2. PICK d \in 1 .. PopulationSize :
            \A g \in 1 .. GeneLength : individuals'[c][g] <= individuals[d][g]
      BY <3>1 DEF GenerationDoes
    <3>3. i \in 0 .. GeneLength - 1 /\ individuals'[c][i + 1] >= Half
      BY DEF Flips
    <3>4. i + 1 \in 1 .. GeneLength
      BY <3>3, IntentConstants
    <3>5. /\ individuals'[c][i + 1] \in Nat /\ individuals[d][i + 1] \in Nat /\ Half \in Nat
      BY <3>1, <3>4, GenesAreNumbers, LevelFacts DEF GenerationDoes, Types, EngineTypes
    <3>6. individuals'[c][i + 1] <= individuals[d][i + 1]
      BY <3>2, <3>4
    <3>7. individuals[d][i + 1] >= Half
      BY <3>3, <3>5, <3>6
    <3>8. QED  BY <3>3, <3>7 DEF Flips
  <2>2. CASE UNCHANGED individuals
    BY <2>2
  <2>3. QED  BY <2>1, <2>2, OtherSteps
<1>2. QED  BY <1>1, TypesInit, TypesStep, PTL DEF Spec, EvolutionAddsNoBit

-----------------------------------------------------------------------------
(* Solutions. *)

\* Until the register changes, the engine works on its payload, and a solution's distance
\* is the one it would leave of it.
SolutionInv ==
  /\ caller.pc = "evolving" /\ ~stale => caller.state = register
  /\ /\ caller.pc \in {"idle", "detected"} /\ caller.solution # None
     /\ ~stale /\ register # None
     => caller.solution.fitness =
          EvaluateFitness(caller.solution.genes, caller.solution.target, register)

\* What becomes of the register: it stays and the history too, or the history says it changed.
LEMMA RegisterSteps ==
  ASSUME [Next]_vars
  PROVE  \/ UNCHANGED <<register, stale>>
         \/ UNCHANGED caller /\ (stale' <=> stale \/ register' # register)
         \/ \E target : BeginEvolve(target)
<1>1. ASSUME ApplySolution \/ Rollback \/ \E lane \in Lanes : OtherWrite(lane)
      PROVE  UNCHANGED caller /\ (stale' <=> stale \/ register' # register)
  <2>1. UNCHANGED caller /\ stale' = (stale \/ register' # register)
    BY <1>1 DEF ApplySolution, Rollback, OtherWrite
  <2>2. QED  BY <2>1, Zenon
<1>2. CASE \/ \E op \in Ops \cup {None}, urgent \in BOOLEAN :
                DetectIntent(op, urgent) \/ DetectNothing(op, urgent)
           \/ EvolvePanic \/ Generation \/ OtherEngineDraws
           \/ Approve \/ ApplyPanic \/ Checkpoint \/ AddTrajectoryNode
           \/ \E scored \in BOOLEAN : Verify(scored)
           \/ \E i \in 1 .. MaxCalls, outcome \in {"Success", "Rejected"} : RecordOutcome(i, outcome)
           \/ \E hash \in Hashes : RecordIntent(hash)
           \/ \E i \in 1 .. MaxCalls : ConfirmIntent(i)
           \/ UNCHANGED vars
  BY <1>2 DEF vars, DetectIntent, DetectNothing, EvolvePanic, Generation, OtherEngineDraws, Approve,
              ApplyPanic, Checkpoint, AddTrajectoryNode, Verify, RecordOutcome, RecordIntent,
              ConfirmIntent
<1>3. QED  BY <1>1, <1>2 DEF Next

\* Every step keeps the invariant.
LEMMA SolutionStep == Types /\ SolutionInv /\ [Next]_vars => SolutionInv'
<1> SUFFICES ASSUME Types, SolutionInv, [Next]_vars PROVE SolutionInv'
  OBVIOUS
<1>0. caller \in Caller
  BY DEF Types, CallerTypes
<1>1. CASE \E target : BeginEvolve(target)
  <2>1. PICK t : /\ caller' = [caller EXCEPT !.pc = "evolving", !.state = register, !.target = t]
                 /\ UNCHANGED register
    BY <1>1 DEF BeginEvolve
  <2>2. caller'.pc = "evolving" /\ caller'.state = register
    BY <1>0, <2>1 DEF Caller
  <2>3. QED  BY <2>1, <2>2 DEF SolutionInv
<1>2. CASE UNCHANGED caller /\ (stale' <=> stale \/ register' # register)
  BY <1>2 DEF SolutionInv
<1>3. CASE UNCHANGED <<register, stale>> /\ Generation
  <2>1. caller.pc = "evolving"
    BY <1>3 DEF Generation
  <2>2. CASE caller' = [caller EXCEPT !.generation = @ + 1]
    <3>1. caller'.pc = "evolving" /\ caller'.state = caller.state
      BY <1>0, <2>1, <2>2 DEF Caller
    <3>2. QED  BY <1>3, <2>1, <3>1 DEF SolutionInv
  <2>3. CASE /\ caller'.pc = "idle"
             /\ caller'.solution.fitness = EvaluateFitness(caller'.solution.genes,
                                              caller'.solution.target, caller.state)
    BY <1>3, <2>1, <2>3 DEF SolutionInv
  <2>4. QED  BY <1>3, <2>2, <2>3, GenerationTypes
<1>4. CASE UNCHANGED <<register, stale>> /\ ~Generation /\ ~ \E target : BeginEvolve(target)
  <2>1. CASE \E op : caller.pc = "idle" /\ caller' = [caller EXCEPT !.pc = "detected",
                                                                !.target = TargetStateFromOp(op)]
    <3>1. PICK t : caller' = [caller EXCEPT !.pc = "detected", !.target = t]
      BY <2>1
    <3>2. caller'.pc = "detected" /\ caller'.solution = caller.solution
      BY <1>0, <3>1 DEF Caller
    <3>3. QED  BY <1>4, <2>1, <3>2 DEF SolutionInv
  <2>2. CASE \E t : caller.pc = "detected" /\ caller' = [caller EXCEPT !.pc = "evolving",
                                                   !.state = register, !.target = t]
    <3>1. caller'.pc = "evolving" /\ caller'.state = register
      BY <1>0, <2>2 DEF Caller
    <3>2. QED  BY <1>4, <3>1 DEF SolutionInv
  <2>3. CASE caller' = [caller EXCEPT !.pc = "panicked"]
    <3>1. caller'.pc = "panicked"
      BY <1>0, <2>3 DEF Caller
    <3>2. QED  BY <3>1 DEF SolutionInv
  <2>4. CASE UNCHANGED caller
    BY <1>4, <2>4 DEF SolutionInv
  <2>5. QED  BY <1>4, <2>1, <2>2, <2>3, <2>4, CallerSteps
<1>5. QED  BY <1>1, <1>2, <1>3, <1>4, RegisterSteps

\* apply_solution (lib.rs:694) leaves between the register and the target the distance
\* the solution was returned with, unless the register changed since evolve_to_intent read it.
THEOREM AppliedSolutionsKeepTheirDistance == Spec => AppliedClosesGap
<1>1. Init => SolutionInv
  BY DEF Init, SolutionInv
<1>2. Types /\ SolutionInv /\ [Next]_vars =>
        [ApplySolution /\ register # None /\ ~stale =>
           Cardinality(SymDiff(register'.on, caller.solution.target.on)) = caller.solution.fitness]_vars
  <2> SUFFICES ASSUME Types, SolutionInv, ApplySolution, register # None, ~stale
               PROVE  Cardinality(SymDiff(register'.on, caller.solution.target.on))
                        = caller.solution.fitness
    OBVIOUS
  <2>1. /\ caller.pc = "idle"
        /\ register'.on = ApplyGenes(register, caller.solution.genes)
    BY ApplyFacts
  <2>2. caller.solution # None
    BY DEF ApplySolution, Solved
  <2>3. QED  BY <2>1, <2>2 DEF SolutionInv, EvaluateFitness
<1>3. QED  BY <1>1, <1>2, TypesInit, TypesStep, SolutionStep, PTL DEF Spec, AppliedClosesGap

-----------------------------------------------------------------------------
(* The judges. *)

\* What the gates said of the caller's solution is what they would say of it still.
JudgeInv ==
  /\ gates = [approved |-> gates.approved, verified |-> gates.verified, against |-> gates.against]
  /\ gates.approved => Flips(caller.solution.genes) = IntentHash
  /\ gates.verified /\ gates.against # None =>
       Alignment(Flips(caller.solution.genes), gates.against) >= MinAlignment

\* Every step keeps it: a new solution clears the gates, and nothing else changes the solution.
LEMMA JudgeStep == Types /\ JudgeInv /\ [Next]_vars => JudgeInv'
<1> SUFFICES ASSUME Types, JudgeInv, [Next]_vars PROVE JudgeInv'
  OBVIOUS
<1>0. caller \in Caller
  BY DEF Types, CallerTypes
<1>1. CASE Approve
  <2> DEFINE yes == VerifyIntent(GenesToDelta(caller.solution.genes))
  <2>1. gates' = [gates EXCEPT !.approved = yes] /\ UNCHANGED caller
    BY <1>1 DEF Approve
  <2>2. yes => Flips(caller.solution.genes) = IntentHash
    BY DEF VerifyIntent, GenesToDelta
  <2> HIDE DEF yes
  <2>3. gates' = [approved |-> yes, verified |-> gates.verified, against |-> gates.against]
    BY <2>1 DEF JudgeInv
  <2>4. gates'.approved = yes /\ gates'.verified = gates.verified /\ gates'.against = gates.against
    BY <2>3
  <2>5. QED  BY <2>1, <2>2, <2>3, <2>4, Zenon DEF JudgeInv
<1>2. ASSUME NEW scored, Verify(scored) PROVE JudgeInv'
  <2> DEFINE yes == VerifierPasses(Flips(caller.solution.genes), scored)
  <2>1. /\ gates' = [gates EXCEPT !.verified = yes, !.against = LatestConfirmed]
        /\ UNCHANGED caller
    BY <1>2 DEF Verify
  <2>2. yes /\ LatestConfirmed # None =>
          Alignment(Flips(caller.solution.genes), LatestConfirmed) >= MinAlignment
    BY DEF VerifierPasses
  <2> HIDE DEF yes
  <2>3. gates' = [approved |-> gates.approved, verified |-> yes, against |-> LatestConfirmed]
    BY <2>1 DEF JudgeInv
  <2>4. gates'.approved = gates.approved /\ gates'.verified = yes /\ gates'.against = LatestConfirmed
    BY <2>3
  <2>5. QED  BY <2>1, <2>2, <2>3, <2>4, Zenon DEF JudgeInv
<1>3. CASE Generation
  <2>1. CASE gates' = [approved |-> FALSE, verified |-> FALSE, against |-> None]
    <3>1. ~gates'.approved /\ ~gates'.verified /\ gates'.against = None
      BY <2>1
    <3>2. QED  BY <2>1, <3>1, Zenon DEF JudgeInv
  <2>2. CASE caller' = [caller EXCEPT !.generation = @ + 1] /\ UNCHANGED gates
    <3>1. caller'.solution = caller.solution
      BY <1>0, <2>2 DEF Caller
    <3>2. QED  BY <2>2, <3>1 DEF JudgeInv
  <2>3. QED  BY <1>3, <2>1, <2>2, GenerationTypes
<1>4. CASE UNCHANGED gates /\ ~Generation
  <2>1. caller'.solution = caller.solution
    BY <1>0, <1>4, CallerSteps DEF Caller
  <2>2. QED  BY <1>4, <2>1 DEF JudgeInv
<1>5. Approve \/ (\E scored : Verify(scored)) \/ Generation \/ UNCHANGED gates
  BY DEF Next, vars, DetectIntent, DetectNothing, BeginEvolve, EvolvePanic, OtherEngineDraws,
         ApplySolution, ApplyPanic, Checkpoint, Rollback, AddTrajectoryNode,
         RecordOutcome, RecordIntent, ConfirmIntent, OtherWrite
<1>6. QED  BY <1>1, <1>2, <1>3, <1>4, <1>5

\* No solution whose hash the user signed (lib.rs:167) passes a verifier that compares it
\* with that hash (lib.rs:469): the alignment of equal hashes is zero.
THEOREM SignedIntentFailsVerifier == Spec => []SignedIntentPassesNoVerifier
<1>1. Init => JudgeInv
  <2> SUFFICES ASSUME Init PROVE JudgeInv
    OBVIOUS
  <2>1. gates = [approved |-> FALSE, verified |-> FALSE, against |-> None]
    BY DEF Init
  <2>2. ~gates.approved /\ ~gates.verified /\ gates.against = None
    BY <2>1
  <2>3. QED  BY <2>1, <2>2, Zenon DEF JudgeInv
<1>2. JudgeInv => SignedIntentPassesNoVerifier
  <2> SUFFICES ASSUME JudgeInv, MinAlignment > 0, gates.approved, gates.verified,
                      gates.against = IntentHash
               PROVE  FALSE
    BY DEF SignedIntentPassesNoVerifier
  <2>1. IntentHash # None /\ MinAlignment \in Nat
    BY IntentConstants
  <2>2. Flips(caller.solution.genes) = IntentHash
    BY DEF JudgeInv
  <2>3. Alignment(IntentHash, IntentHash) >= MinAlignment
    BY <2>1, <2>2 DEF JudgeInv
  <2>4. Alignment(IntentHash, IntentHash) = 0
    BY DEF Alignment
  <2>5. QED  BY <2>1, <2>3, <2>4
<1>3. QED  BY <1>1, <1>2, TypesInit, TypesStep, JudgeStep, PTL DEF Spec
=============================================================================
