-------------------------------- MODULE Intent --------------------------------
(***************************************************************************)
(* The intent layer of binetic-intent/src/lib.rs: an engine that evolves a *)
(* delta towards a target, the authority and the verifier that judge it,   *)
(* and a caller that uses them on one register other writers share.        *)
(*                                                                         *)
(* A lane is its length and its set bits. hash_bitslice of a lane of one   *)
(* word is that word, so a hash is the set of its one bits. A draw of      *)
(* rand_float is one of the levels 0..Top, intervals of [0, 1) in order:   *)
(* those below Rate are under mutation_rate, those from Half on over 0.5.  *)
(* The learned score of a mutation is an input of `verify`; what `train`   *)
(* does to the weights, the meta-learner (evolution never reads what it    *)
(* learns) and the wording of messages are left out.                       *)
(***************************************************************************)
EXTENDS Integers, FiniteSets, SequencesExt

CONSTANTS
  GeneLength, PopulationSize, MaxGenerations, Threshold,  \* IntentEngineConfig; distances in bits
  Top, Half, Rate,     \* levels of rand_float
  OpLength,            \* 256, the length of a target made from an operation
  Ops,                 \* operations the caller's messages name
  Lanes,               \* payloads and explicit targets
  Hashes,              \* intent hashes
  IntentHash,          \* the hash the user signed
  MinAlignment,        \* Verifier thresholds: bits of 64,
  MinSuccess,          \*   and a pair of naturals for the success rate
  None,
  MaxCalls             \* bound: intents detected, checkpoints, nodes and intents recorded

Infinity == 1000       \* f64::INFINITY, above every distance

VARIABLES
  register,            \* payload of the register at the caller's address
  individuals,         \* genes of IntentEngine.population, best first after a generation
  best_fitness,        \* the last of best_fitness_history, which nothing looks behind
  draw,                \* level of the process-wide SEED
  checkpoint,          \* the last of UserAuthority.checkpoints for the address
  trajectory,          \* outcomes of TrajectoryGraph.nodes
  intents,             \* IntentGraph.nodes
  caller,              \* where the caller is and what it holds
  calls,               \* number of calls that grow a list
  stale,               \* history: register changed since the caller read it
  gates                \* history: what the gates said of the caller's solution

engine == <<individuals, best_fitness>>
judges == <<checkpoint, trajectory, intents>>
vars == <<register, engine, draw, judges, caller, calls, stale, gates>>

Levels == 0 .. Top
Genes == [1 .. GeneLength -> Levels]

\* A population of one has nothing to sort or breed; the code's default is 50.
ASSUME IntentConstants ==
  /\ GeneLength \in Nat \ {0} /\ PopulationSize \in Nat \ {0, 1} /\ MaxGenerations \in Nat \ {0}
  /\ Threshold \in Nat /\ OpLength \in Nat /\ Top \in Nat
  /\ Rate \in 1 .. Top /\ Half \in Rate + 1 .. Top
  /\ Ops \subseteq {"Sin", "Cos", "XorGate", "AndGate", "OrGate", "NotGate", "Hadamard"}
  /\ Lanes \subseteq [len : Nat, on : SUBSET Nat] /\ None \notin Lanes
  /\ \A l \in Lanes : l.on \subseteq 0 .. l.len - 1
  /\ IntentHash \in Hashes /\ None \notin Hashes /\ MinAlignment \in Nat

-----------------------------------------------------------------------------
(* Lanes. *)

\* Bits a solution flips: gene > 0.5. Bit i is gene i + 1.
Flips(genes) == {i \in 0 .. GeneLength - 1 : genes[i + 1] >= Half}

\* Mutant of GenesToDelta: the threshold is mutation_rate.
GenesToDeltaLow(genes) == [len |-> GeneLength, on |-> {i \in 0 .. GeneLength - 1 : genes[i + 1] >= Rate}]

\* apply_genes stops at the state's length, genes_to_delta does not.
ApplyGenes(state, genes) == SymDiff(state.on, {i \in Flips(genes) : i < state.len})
GenesToDelta(genes) == [len |-> GeneLength, on |-> Flips(genes)]

\* A fraction of the target's length in the code, not a number for a length of zero.
EvaluateFitness(genes, target, state) == Cardinality(SymDiff(ApplyGenes(state, genes), target.on))

TargetStateFromOp(op) ==
  LET Bit(i) == CASE op \in {"Sin", "XorGate"} -> i % 2 = 0
                  [] op \in {"Cos", "NotGate"} -> i % 2 # 0
                  [] op = "AndGate"            -> i % 4 = 0
                  [] op = "OrGate"             -> i % 2 = 0 \/ i % 3 = 0
                  [] op = "Hadamard"           -> i % 4 < 2
                  [] OTHER                     -> FALSE
  IN  [len |-> OpLength, on |-> {i \in 0 .. OpLength - 1 : Bit(i)}]

-----------------------------------------------------------------------------
(* The generator: SEED counts draws, and a draw is the fraction of         *)
(* SEED * 1e-9, so draws climb slowly and wrap from Top to 0. The draws of *)
(* one construction or generation cross at most one boundary, before the   *)
(* k-th of them.                                                           *)

NextLevel(d) == (d + 1) % (Top + 1)
Drawn(d, k, i) == IF i < k THEN d ELSE NextLevel(d)
Position(individual, gene) == (individual - 1) * GeneLength + gene
Crossings(draws) == 1 .. draws + 1

\* Mutant of Perturbed: the second draw is independent of the first.
PerturbedEitherWay(g) == {g, IF g = 0 THEN 0 ELSE g - 1, IF g = Top THEN Top ELSE g + 1}

\* A gene is perturbed by (rand_float() - 0.5) * 0.2 right after a draw under
\* mutation_rate, so the second draw is far below 0.5 and the gene falls.
Perturbed(g) == {g, IF g = 0 THEN 0 ELSE g - 1}

-----------------------------------------------------------------------------
(* GAPopulation. *)

EliteCount == IF PopulationSize \div 5 > 1 THEN PopulationSize \div 5 ELSE 1

ChildDraws == (PopulationSize - EliteCount) * GeneLength

\* rand_usize truncates a float below 1: every tournament draws the first
\* individual, and crossover blends it with itself.
SelectParent(inds) == inds[1]
Crossover(p1, p2) == [i \in 1 .. GeneLength |-> (p1[i] + p2[i]) \div 2]

\* Children of one generation whose k-th draw crosses a boundary.
Children(inds, k) ==
  LET genes == Crossover(SelectParent(inds), SelectParent(inds))
      Mutate(c) == {g \in Genes : \A i \in 1 .. GeneLength :
                      g[i] \in IF Drawn(draw, k, Position(c - EliteCount, i)) < Rate
                               THEN Perturbed(genes[i]) ELSE {genes[i]}}
  IN  {kids \in [EliteCount + 1 .. PopulationSize -> Genes] :
         \A c \in DOMAIN kids : kids[c] \in Mutate(c)}

\* Mutant of Evolved: no elite is kept, the first child takes its place.
EvolvedNoElite(inds, kids) == [c \in 1 .. PopulationSize |->
  kids[IF c <= EliteCount THEN PopulationSize ELSE c]]

Evolved(inds, kids) == [c \in 1 .. PopulationSize |->
  IF c <= EliteCount THEN inds[c] ELSE kids[c]]

Fitness == [c \in 1 .. PopulationSize |->
  EvaluateFitness(individuals[c], caller.target, caller.state)]

\* sort_by is stable, so one order of the individuals is sorted by fitness.
Sorted(fitness) == {order \in [1 .. PopulationSize -> 1 .. PopulationSize] :
  \A a, b \in 1 .. PopulationSize : a < b =>
    \/ fitness[order[a]] < fitness[order[b]]
    \/ fitness[order[a]] = fitness[order[b]] /\ order[a] < order[b]}

-----------------------------------------------------------------------------
(* The judges. *)

\* UserAuthority::verify_intent.
VerifyIntent(delta) == delta.on = IntentHash

SuccessCount == Cardinality({i \in DOMAIN trajectory : trajectory[i] = "Success"})
CompletedCount == Cardinality({i \in DOMAIN trajectory : trajectory[i] # "Pending"})

\* success_rate() >= min_trajectory_success_rate; the rate of no outcome is 0.0.
TrajectoryPasses == IF CompletedCount = 0 THEN MinSuccess[1] = 0
                    ELSE SuccessCount * MinSuccess[2] >= MinSuccess[1] * CompletedCount

Confirmed == {i \in DOMAIN intents : intents[i].confirmed}
LatestConfirmed == IF Confirmed = {} THEN None
                   ELSE intents[CHOOSE i \in Confirmed : \A j \in Confirmed : j <= i].intent_hash

\* Mutant of Alignment: bits that match below the lowest difference.
AlignmentLow(a, b) == IF a = b THEN 64 ELSE CHOOSE i \in SymDiff(a, b) : \A j \in SymDiff(a, b) : i <= j

\* 64 - leading_zeros(delta ^ intent): the place of the highest bit that differs.
Alignment(a, b) == IF a = b THEN 0 ELSE 1 + CHOOSE i \in SymDiff(a, b) : \A j \in SymDiff(a, b) : j <= i

VerifierPasses(delta_hash, scored) ==
  /\ TrajectoryPasses
  /\ LatestConfirmed # None => Alignment(delta_hash, LatestConfirmed) >= MinAlignment
  /\ scored

-----------------------------------------------------------------------------
Init ==
  /\ register \in Lanes \cup {None}
  /\ draw \in Levels
  /\ \E k \in Crossings(PopulationSize * GeneLength) :
       individuals = [c \in 1 .. PopulationSize |->
         [i \in 1 .. GeneLength |-> Drawn(draw, k, Position(c, i))]]
  /\ best_fitness = Infinity
  /\ checkpoint = None /\ trajectory = <<>> /\ intents = <<>>
  /\ caller = [pc |-> "idle", state |-> None, target |-> None,
               generation |-> 0, solution |-> None]
  /\ calls = 0
  /\ stale = FALSE
  /\ gates = [approved |-> FALSE, verified |-> FALSE, against |-> None]

\* A call that grows a list counts against the bound.
Grow == caller.pc = "idle" /\ calls < MaxCalls /\ calls' = calls + 1

\* detect_intent refuses a message that names no operation and asks for
\* neither a correction nor learning. The command line may override the operation.
DetectIntent(op, urgent) ==
  /\ Grow
  /\ op # None \/ urgent
  /\ caller' = [caller EXCEPT !.pc = "detected", !.target = TargetStateFromOp(op)]
  /\ UNCHANGED <<register, engine, draw, judges, stale, gates>>

DetectNothing(op, urgent) ==
  /\ caller.pc = "idle"
  /\ op = None /\ ~urgent
  /\ UNCHANGED vars

\* The caller reads the register and calls evolve_to_intent on its payload,
\* towards an explicit target_state or the pattern of the operation.
BeginEvolve(target) ==
  /\ caller.pc = "detected"
  /\ register # None
  /\ caller' = [caller EXCEPT !.pc = "evolving", !.state = register,
                  !.target = IF target = None THEN @ ELSE target]
  /\ stale' = FALSE
  /\ UNCHANGED <<register, engine, draw, judges, calls, gates>>

\* The xor of lanes of two lengths asserts, and the sort's partial_cmp of 0 / 0 is no order.
EvolvePanic ==
  /\ caller.pc = "evolving"
  /\ caller.state.len # caller.target.len \/ caller.target.len = 0
  /\ caller' = [caller EXCEPT !.pc = "panicked"]
  /\ UNCHANGED <<register, engine, draw, judges, calls, stale, gates>>

\* The caller keeps a clone of the individual returned.
Return(genes, fitness) ==
  /\ caller' = [caller EXCEPT !.pc = "idle", !.generation = 0, !.state = None, !.target = None,
                  !.solution = [genes |-> genes, fitness |-> fitness, target |-> caller.target]]
  /\ gates' = [approved |-> FALSE, verified |-> FALSE, against |-> None]

\* A generation: evaluate, sort, record, and stop below the threshold or breed.
Generation ==
  /\ caller.pc = "evolving" /\ caller.state.len = caller.target.len /\ caller.target.len # 0
  /\ \E order \in Sorted(Fitness) :
       LET inds == [c \in 1 .. PopulationSize |-> individuals[order[c]]]
           best == Fitness[order[1]]
       IN  /\ best_fitness' = best
           /\ \/ /\ best < Threshold
                 /\ individuals' = inds
                 /\ Return(inds[1], best)
                 /\ UNCHANGED draw
              \/ /\ best >= Threshold
                 /\ \E k \in Crossings(ChildDraws) : \E kids \in Children(inds, k) :
                      /\ individuals' = Evolved(inds, kids)
                      /\ draw' = Drawn(draw, k, ChildDraws)
                 /\ IF caller.generation + 1 < MaxGenerations
                    THEN caller' = [caller EXCEPT !.generation = @ + 1] /\ UNCHANGED gates
                    ELSE Return(individuals'[1], best)
  /\ UNCHANGED <<register, judges, calls, stale>>

\* Engines elsewhere in the process draw from the same SEED; it shows only in a generation.
OtherEngineDraws ==
  /\ caller.pc \in {"detected", "evolving"}
  /\ draw' = NextLevel(draw)
  /\ UNCHANGED <<register, engine, judges, caller, calls, stale, gates>>

-----------------------------------------------------------------------------
(* What a caller does with a solution; none of it is asked for by another. *)

Solved == caller.pc = "idle" /\ caller.solution # None

\* The audit trail keeps the verdict; the authority reads it only for its owner.
Approve ==
  /\ Solved
  /\ gates' = [gates EXCEPT !.approved = VerifyIntent(GenesToDelta(caller.solution.genes))]
  /\ UNCHANGED <<register, engine, draw, judges, caller, calls, stale>>

Verify(scored) ==
  /\ Solved
  /\ gates' = [gates EXCEPT !.verified = VerifierPasses(Flips(caller.solution.genes), scored),
                            !.against = LatestConfirmed]
  /\ UNCHANGED <<register, engine, draw, judges, caller, calls, stale>>

\* apply_solution asks neither judge. inject_adapt_raw merges the delta under
\* the store's lock, and returns an error when there is no register.
ApplySolution ==
  /\ Solved
  /\ register # None => register.len = GeneLength
  /\ register' = IF register = None THEN None
       ELSE [register EXCEPT !.on = SymDiff(@, GenesToDelta(caller.solution.genes).on)]
  /\ stale' = (stale \/ register' # register)
  /\ UNCHANGED <<engine, draw, judges, caller, calls, gates>>

\* A delta of another length than the register's asserts before anything is stored.
ApplyPanic ==
  /\ Solved
  /\ register # None /\ register.len # GeneLength
  /\ caller' = [caller EXCEPT !.pc = "panicked"]
  /\ UNCHANGED <<register, engine, draw, judges, calls, stale, gates>>

Checkpoint ==
  /\ Grow /\ register # None
  /\ checkpoint' = register
  /\ UNCHANGED <<register, engine, draw, trajectory, intents, caller, stale, gates>>

\* rollback returns the last checkpoint and keeps it; the caller writes it back.
Rollback ==
  /\ caller.pc = "idle" /\ checkpoint # None
  /\ register' = checkpoint
  /\ stale' = (stale \/ register' # register)
  /\ UNCHANGED <<engine, draw, judges, caller, calls, gates>>

\* add_trajectory_node and record_outcome; an index out of range changes nothing.
AddTrajectoryNode ==
  /\ Grow
  /\ trajectory' = Append(trajectory, "Pending")
  /\ UNCHANGED <<register, engine, draw, checkpoint, intents, caller, stale, gates>>

RecordOutcome(i, outcome) ==
  /\ caller.pc = "idle" /\ i \in DOMAIN trajectory
  /\ trajectory' = [trajectory EXCEPT ![i] = outcome]
  /\ UNCHANGED <<register, engine, draw, checkpoint, intents, caller, calls, stale, gates>>

RecordIntent(hash) ==
  /\ Grow
  /\ intents' = Append(intents, [intent_hash |-> hash, confirmed |-> FALSE])
  /\ UNCHANGED <<register, engine, draw, checkpoint, trajectory, caller, stale, gates>>

ConfirmIntent(i) ==
  /\ caller.pc = "idle" /\ i \in DOMAIN intents
  /\ intents' = [intents EXCEPT ![i].confirmed = TRUE]
  /\ UNCHANGED <<register, engine, draw, checkpoint, trajectory, caller, calls, stale, gates>>

\* Another user of the fabric writes the register, between any two steps above.
OtherWrite(lane) ==
  /\ caller.pc # "panicked"
  /\ register' = lane
  /\ stale' = (stale \/ register' # register)
  /\ UNCHANGED <<engine, draw, judges, caller, calls, gates>>

Next ==
  \/ \E op \in Ops \cup {None}, urgent \in BOOLEAN : DetectIntent(op, urgent) \/ DetectNothing(op, urgent)
  \/ \E target \in Lanes \cup {None} : BeginEvolve(target)
  \/ EvolvePanic \/ Generation \/ OtherEngineDraws
  \/ Approve \/ ApplySolution \/ ApplyPanic \/ Checkpoint \/ Rollback \/ AddTrajectoryNode
  \/ \E scored \in BOOLEAN : Verify(scored)
  \/ \E i \in 1 .. MaxCalls, outcome \in {"Success", "Rejected"} : RecordOutcome(i, outcome)
  \/ \E hash \in Hashes : RecordIntent(hash)
  \/ \E i \in 1 .. MaxCalls : ConfirmIntent(i)
  \/ \E lane \in Lanes : OtherWrite(lane)

Spec == Init /\ [][Next]_vars

-----------------------------------------------------------------------------
(* Properties. *)

\* Elitism keeps the best found: within one call of evolve_to_intent the best
\* distance recorded never rises, although every other individual is replaced.
BestNeverWorsens ==
  [][caller.pc = "evolving" /\ caller.generation > 0 => best_fitness' <= best_fitness]_vars

\* The perturbation called Gaussian-like (lib.rs:890) is one-sided: it is drawn right after
\* a draw known to be small, so evolution only ever lowers genes. No generation flips a bit
\* that no individual before it flipped, and a gap outside the first population's bits is
\* never closed, whatever the promise of lib.rs:8, 640 and the test at 1187.
EvolutionAddsNoBit ==
  [][UNION {Flips(individuals'[c]) : c \in 1 .. PopulationSize}
       \subseteq UNION {Flips(individuals[c]) : c \in 1 .. PopulationSize}]_vars

\* The fitness a solution was returned with is the distance that remains after
\* it is applied, unless the register changed since the engine was given it.
AppliedClosesGap ==
  [][ApplySolution /\ register # None /\ ~stale =>
       Cardinality(SymDiff(register'.on, caller.solution.target.on)) = caller.solution.fitness]_vars

\* The authority approves the delta whose hash is the signed one. The verifier is to ask
\* whether a mutation matches the latest confirmed intent (lib.rs:420, 465), but measures by
\* the highest bit that differs (lib.rs:469): with a threshold above zero no solution passes
\* both while the signed intent is the one confirmed.
SignedIntentPassesNoVerifier ==
  MinAlignment > 0 /\ gates.approved /\ gates.verified => gates.against # IntentHash
===============================================================================
