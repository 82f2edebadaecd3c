# A TLA+ verification of binetic

binetic is "a self-describing, spatially-organized computation fabric for local AI
inference" (`README.md`): a store of registers with 128-bit addresses, changed by XOR
deltas that echo to dependent registers, with Bloom filters for routing and a rotation
scheduler for caching; around it compute backends, an intent layer, a temporal packet
network and a Python runtime. `RECOVERY.md` records that the Rust tree was recovered and
that `binetic-core` has type errors left in `backend.rs`. The models follow the source as
it is written: the errors are mismatches of integer widths, and the models take the numbers
they are about as exact.

This directory holds TLA+ modules translated from that source, the TLC configurations that
check them on small instances, and theorems that TLAPS proves for every value of the
constants. `PROJECT.json` lists components, runs, mutants, hazards and theorems, and maps
each definition to the lines it models.

    tlc -workers 2 -config MCFabric.cfg MCFabric.tla      # model checking
    tlapm FabricProofs.tla                                # proofs

## 1. The system

### Inventory

| Component | State it keeps | Operations | Works with | Hard part | What makes it correct |
|---|---|---|---|---|---|
| **Echo propagator** `binetic-core/src/echo.rs` | policy, a bounded deque of pending echoes, counters | `queue_echo`, `inject_structured`, `propagate` (three callbacks), `clear`, `reset_stats` | reads the shared Bloom registry for every dependent; callbacks read and write the fabric | the loop drains one deque and fills another; bounds and u8 depth; registry changes between visits | a round ends, echoes are neither lost nor applied twice, queue and depth within their limits |
| **Fabric: store and calls** `fabric.rs` | registers, its own Bloom registry, echo propagator, access log, counters, each behind a lock of its own | `write`, `inject_adapt`, `inject_adapt_raw`, `compute`, `read`, `read_raw` | everything | locks are taken one after another, one of them is held while others are taken, callbacks re-enter `write` | calls isolated from each other, no self-deadlock, filters cover what was written, a call changes everything or nothing |
| Fabric: models | model attachments, delta registers | `attach_model`, `attach_delta_model`, `resolve` inside `read` | store | base and delta are read under two locks (335-351) | a read sees a base and a delta that existed together |
| Fabric: database layer | - | `query_scan`, `db_insert_record`, `db_update_record_field`, `db_delete_record` | store, Bloom estimates (915) | a filter decides that a sector is empty; insert and update address a record differently | a scan finds what was inserted |
| **Rotation scheduler** `rotation.rs` | per layer: phase, period, count; energy and thermal state | `advance`, `trigger_rotation`, `set_energy_state`, `set_thermal_state`, `record_access` | its own echo propagator and registry (fabric.rs:256-270) | floating-point phase, zero periods, two adjustments that overwrite each other, callbacks under the scheduler's lock | rotations keep up with elapsed time; damped echoes are released by rotation |
| **Bloom filters** `bloom.rs` | bit arrays with an anchor, a map from sector to filter | `insert`, `might_contain`, `merge`, `might_intersect`, `rebuild`, `estimated_count`, `aggregate_to_parent` | fabric, echo propagator, scheduler | merged filters hash with different anchors; estimates truncate | no false negatives |
| **Registers** `register.rs` | address, payload, lineage, checksum, echo count; compound registers; records | `update_with_delta`, `fold_with`, `lineage_consistent`, `update_base`, `is_consistent`, `update_field` | fabric, propagator callbacks | two definitions of lineage (incremental, recomputed) | lineage consistent after every sequence of operations |
| Bitsliced lanes `bitslice.rs` | bit planes | XOR, gates, encodings | all | lengths must agree | XOR algebra |
| Addresses `address.rs` | 128 bits | field access, `child`, `neighbor` | all | saturation at field ends | fields round-trip |
| Tiers `tiers.rs` | table of tiers | lookup, mapping | scheduler, fabric | overlapping layer ranges, first match | every layer has a tier |
| Backends `backend.rs` | a set of boxed backends | `select_best`, `execute`, teardown | `Fabric::compute` | floating-point scores; missing operands | a failed execution writes nothing |
| llama.cpp backend `binetic-llama-cpp` | model and context pointers, memory map, metadata | `load_model`, `init`, `teardown`, `unmap_model`, `execute`, drop | an external C library | order of freeing across reloads | nothing is freed twice or used after |
| MLX backend `binetic-mlx` | flags, path | `load_model`, `init`, `execute` | - | a placeholder | - |
| Intent layer `binetic-intent` | authority and audit trail, trajectory and intent graphs, scoring weights, population, strategies | `detect_intent`, `evolve_to_intent`, `verify`, `approve`, `rollback`, `apply_solution` | `Fabric::inject_adapt` | approval, verification and application are separate calls | nothing unapproved is applied; evolution never loses its best |
| Temporal packet network `binetic-protocol` | clock, gates, event heap, two rail registers | `schedule_packet`, `step`, `run_until_idle`, ticket check | - | clock follows the popped event; an event is popped before it can fail; cyclic routes | time never runs backwards; no event is lost |
| Turing machine demo `utm.rs`, `main.rs` | tape, state, position | `step` | engine | - | - |
| Network registers `network.rs` | tree of bit matrices | set, evaluate, resize, child | fabric map of networks | one owner | - |
| Command line `binetic-cli` | - | subcommands | fabric, intent | single thread | - |
| Python runtime `binetic-runtime` | gates, registers, receipts; spiking network; DSL text | `arrive`, `verify`, `forward`, `evolve`, parsing | - | floating point, recursion over synapses | receipts verify |

Bold rows are the core: what every other part calls, and where threads, callbacks and
locks meet.

### How the core interacts

`inject_adapt` (fabric.rs:629-692) is the centre. It reads a register under the store's
lock, lets the lock go, merges the delta into a copy and writes that back with `write`,
which takes the store's lock again, twice, then the echo propagator's, to queue the change,
then the Bloom registry's. Back in `inject_adapt` the delta itself is queued (653-663), and
`propagate` runs under the propagator's lock (665-684), with callbacks that take the store's
lock to read dependents and call `write` to update them - which asks for the propagator's
lock again. `write` treats a full queue as a dropped echo; `inject_adapt` treats it as an
error, after its register has changed.

`Fabric::new` (256-270) makes *two* Bloom registries and *two* echo propagators. `write`
fills one registry; the propagator and the scheduler consult the other, which nothing fills.
The scheduler drains a propagator to which nothing is queued.

Everything `&self`: any number of threads may run any of these calls at once. Nothing is
persisted, no messages are exchanged, so crash recovery and unreliable delivery do not arise.

## 2. The modules

| Module | What it is | Instances, theorems |
|---|---|---|
| `EchoPropagator` | `echo.rs` complete, with any policy, dependency map and shared registry | `MCEchoPropagator`, `EchoPropagatorProofs` |
| `Fabric` | the store and the calls that change it, by several threads; instantiates `EchoPropagator` for its propagator | `MCFabric`, `FabricProofs` |
| `Rotation` | `rotation.rs`, the tiers its periods rest on, and `Fabric::advance_rotation` | `MCRotation`, `RotationProofs` |
| `Bloom` | filters and registry of `bloom.rs`, as values | - |
| `Database` | `query_scan` and the `db_` calls over the store and `Bloom`, by several threads | `MCDatabase`, `DatabaseProofs` |
| `Membership` | abstract: a set and the elements it denies, which `Database`'s registry implements | - |
| `Lineage` | registers and compound registers of `register.rs`, as values | - |
| `Models` | `read`, `resolve` and the model attachments over `Lineage`, by several threads | `MCModels`, `ModelsProofs` |
| `TemporalNetwork` | the engine, gates, tickets and rails of `binetic-protocol` | `MCTemporalNetwork`, `TemporalNetworkProofs` |
| `Lanes` | `BitslicedLane` with its words, and the native backend's operations, as values | - |
| `Backends` | the backend set, the three backends and `Fabric::compute`, over `Lanes` | `MCBackends`, `BackendsProofs` |
| `Intent` | evolution, judges and application of `binetic-intent` | `MCIntent`, `IntentProofs` |

`Rotation`, `Database`, `Models` and `Backends` each take the part of `fabric.rs` that
belongs to their component, at the same grain as `Fabric`: one action between two lock
operations. What one of them leaves out of a call (the echoes a write queues, say) is the
subject of another.

### EchoPropagator

A lane is the set of its set bits, XOR is symmetric difference. The handlers come first
(`AcceptEcho`, `DropEcho`, `Clear`, `ResetStats`, `BeginPropagate`, `PopEcho`, the five
branches of the loop body `SkipGated`, `SkipMissing`, `CancelEcho`, `DampEcho`,
`DeliverEcho`, and `EndPropagate`) and constrain the propagator's own variables only, so
that another module can use them with its own environment. Below them the propagator is
composed with a caller, a register store and the shared registry.

`propagate` is one Rust call under `&mut self`. It is split at its callbacks - one action
for `pop_front`, one for each dependent - because the registry behind the mutex may gain
entries in between; `phase` keeps the propagator's other methods out until it returns.
Dependents are visited in any order, where the code follows the order of the vector.

Details kept because a property depends on them:
- the gate asks the *dependent's* sector for the *source's* address (echo.rs:162-177), and a
  sector without a filter answers no;
- a damped echo goes to `processed`, under a bound tested on `pending` (195);
- `depth` is a u8: `depth + 1` wraps in a release build (`DampEcho`) and panics in a debug
  build (`DampPanic`), which unwinds the call;
- an echo out of depth is discarded without a count.

Left out: timestamps (always 0), byte counts, `minimal` (never read) and poisoning of the
registry's mutex, which makes the gate let echoes through (`if let Ok`): none of its owners
panics while holding it. `id` is a ghost that numbers echoes for `deliveries`.

### Fabric

One action for each stretch between two lock operations:

    write          StartWrite - WriteReadOld - WriteInsert - [WriteQueueEcho] - WriteFinish
    inject_adapt   StartAdapt - the steps of write - AdaptInject - AdaptBegin -
                   (AdaptEcho | AdaptLookup - AdaptDeliver - the steps of write)* -
                   AdaptEnd | AdaptPanic
    inject_adapt_raw   AdaptRaw, one critical section
    compute        ComputeRead - ComputeInsert, with the native backend's Add

Only the propagator's lock is held across others, so only it is a variable (`echoLock`).
`WriteQueueEcho`, `AdaptInject` and `AdaptBegin` wait for it; a thread that re-enters
`write` from a callback and gets to `WriteQueueEcho` waits for itself. An echo that the
propagator delivers reads its register twice, once to find it registered (`AdaptLookup`,
fabric.rs:668) and once to update it (`AdaptDeliver`, 670).

Abstractions: a register is its payload (lineage and checksum are in Lineage); the Bloom
registry is the set of pairs it answers "might contain" for, so false positives are left
to Bloom and Database; `read` and `read_raw` change only counters and are not actions;
`FabricStats`, the access log and `record_access` decide nothing; lanes have one width, as
callers must ensure (bitslice.rs:242); `compute` runs one operation, since all native
operations read operands before and insert a result after in the same way. `PopulatedSets`
stands for a store filled by earlier writes. `alone` is a history variable: no other call
was inside its read-to-insert window on these registers since this one read them.

### Rotation

Periods are whole milliseconds, as in the code; the durations that callers advance by are
finer, in ticks, and `Millis` drops what `as_millis` drops (rotation.rs:251). A phase is counted
in 1/`Unit` of a cycle, exact where the code rounds an f64, and `Inf` and `NaN` are its other
values. `Advance` is `advance_rotation` up to the scheduler's `advance`, `TriggerRotation` one
completed layer (the code visits them in `HashMap` order, so any order), `FinishAdvance` the
rest; `holder` keeps the scheduler's lock from the first to the last, and `trigger_rotation`
would block if its propagator ever had an echo. Of the two propagators of `Fabric::new` only the
number of echoes waiting is kept. Three history variables: `earned` is the phase that a layer's
time is worth to the tick, `slack` a tick short of a millisecond for each advance it took part
in, `outrun` the layers that were once advanced by a whole period or more.

### Bloom, Database, Membership

A filter is the set of its bits that are one. `SectorBloom::hash` reads the low 64 bits of an
address, which are spine, layer, ring and sector: all addresses of one sector have the same
positions under an anchor. `HashBits` therefore maps an anchor and a sector to positions and
is arbitrary (`BloomConstants`), and so is the estimate as far as it is known to truncate.

A call of `Database` is a list of writes, each of two steps (`StoreRegister` under the store's
lock, `ListRegister` under the registry's); a scan takes both for every sector
(`ScanFilter`, `ScanRegisters`). `listed` and `covered` are history variables: addresses whose
write has returned, and what was listed when a parent filter was made. `Membership` is what a
registry of filters promises: insertions end denials and begin none, a clear denies
everything. The mapping takes `listed` for its members and the addresses the filters answer
no for as denied.

The calls are kept as they are, with their oddities: insert puts the entity *type* where
update and delete put the entity *id*; `compute` lists its result nowhere; a scan passes over
a sector whose estimate is zero and not over one without a filter.

### Lineage, Models

A lineage is an XOR of hashes. With ideal hashes it is the set of what was hashed an odd
number of times: addresses, payloads and the constant of register.rs:133. So
`update_with_delta` (which folds in the constant and the *delta's* hash) and
`lineage_consistent` (which expects address and current payload) can be compared exactly.
`Models` runs `read` in its four critical sections, `inject_adapt` in two,
`attach_delta_model` in two, the rest in one. `seen` and `changed` are history variables of a
read in progress: the payloads its register resolved to since it began, and which of base,
delta and set of models changed.

### TemporalNetwork

The engine belongs to one caller, who registers gates, schedules packets and runs it to the
end or to an error. The heap is a bag of events with any order among those of one arrival
time (`Ord for Event` compares times only). SHA-256 is injective, so a hash is what it digests,
and `xor_hashes` is symmetric difference. A step that fails (`NoGate`, `Refused`) has taken its event
off the queue, moved the clock and left the rest in place, as the code does.

### Lanes, Backends

A lane is its length, its number of words and the set of positions whose bit is one, over all
words: those past the length are in no loop's reach and in popcount's and equality's.
`NativeExecute` is the native backend, every operation, with its failures. `Backends` gives the
llama.cpp backend as its pointer fields and an external C library that hands out handles or
fails; the values a model computes are any the library may give. `compute` chooses under the
set's lock (`Select`), looks the winner up again under a second one (`Dispatch`), which it lets
go when the backend has returned (`Release`), and stores under the store's (`Store`); `InsideEval` is a thread in the library with the context it took
out of the mutex. `sure` and `replaced` are history: whether the choice could only fall on a
ready backend, and whether a context was dropped without being freed.

Two preparations of a backend are those of its owner before it is added (`OwnLlama`, after
`cmd_load` of the command line; `OwnMlx`); afterwards only the set's lock leads to it.

### Intent

An individual is its genes as levels of `rand_float`, whose state is process-wide: another
engine's draws may come between (`OtherEngineDraws`). `Generation` is one turn of the loop of
`evolve_to_intent`: evaluate, sort (`Sorted` has the one order a stable sort gives), record, and
evolve with elites, crossover and mutation as they are - both parents of a child are the first individual, and a perturbation reuses the
draw that was below the mutation rate. The caller then asks the verifier, the authority, both
or neither before `ApplySolution`, and other writers share the register. A target without
bits makes every fitness 0/0, which is NaN, and the `unwrap` in the sort's comparison panics
(`EvolvePanic`, lib.rs:655-675); lanes of other lengths than the circuits' are among the targets. The learned score of
a mutation is an input of `verify`.

## 3. What the runs check

| Run | States | Result | Shows |
|---|---|---|---|
| `echo` | 1,180,000 | holds | `TypeOK`, `DepthWithinLimit`, `OnlyColdRequeued`, `QueueBoundedForChains`, `AtMostOnceDelivery`, `PropagateTerminates` under every policy |
| `echo_gate` | | violated | a hot echo does not reach its registered dependent under the default policy |
| `fabric` | 706,000 | holds | `TypeOK`, `NoInterference`, `SelfDeadlockOnlyUngated`, `BloomCoversWrites`, `OnlyPropagateDrains`, `CallsReturn` |
| `fabric_refused` | | violated | an `inject_adapt` refused for a full queue has already changed its register |
| `fabric_race` | | violated | two adaptations of one register lose a delta |
| `rotation` | 110,000 | holds | `TypeOK`, `PeriodFromOneFactor`, `CyclesAccountForTime`, `RotationDrainsNothing`, `PhaseInCycleUnlessOutrun`, `AdvanceReturns` |
| `database` | 263,000 | holds | `ListedNeverDenied`, `FilterIsRebuild`, `ScanMissesOnlyCollidingSectors`, `ParentDeniesOnlyForeignHashes`, `UpdateFindsInsertOnlyByType`, `RegistryImplementsMembership` |
| `models` | 691,000 | holds | `LineageDeterminesPayload`, `OnlyDeltasReadAsCorrupt`, `ConsistentCompoundIsCurrent`, `TornOnlyByTwoChanges` |
| `tpn` | 138,000 | holds | `SealedPacketFollowsItsControl`, `EveryHopIsAccountedFor`, `ClockGoesBackOnlyToBackdated`, `RunReturns` |
| `backends` | 1,786,000 | holds | `HandlesAreLive`, `NotReadyOnlyByChoice`, `TailsAreClear` |
| `backends_race` | | violated | two computes are inside the C library with one context |
| `intent` | 2,816,000 | holds | `BestNeverWorsens`, `EvolutionAddsNoBit`, `AppliedClosesGap`, `SignedIntentPassesNoVerifier` |

The type invariants of `Models`, `TemporalNetwork` and `Backends` hold on the same instances;
they are left out of the runs, which check what can really go wrong.

**echo.** The properties are about what survives a round. `AtMostOnceDelivery` is the
important one: applying an XOR delta twice undoes it, and damped echoes are re-queued, one
copy per dependent, round after round. `QueueBoundedForChains` says that the misdirected
bound test (echo.rs:195) does no harm while every register has at most one dependent, which is
how the fabric calls it; with two, a damped echo is queued again twice and the queue passes its
limit. `DepthWithinLimit` says that a depth limit keeps the u8 from overflowing;
without one it does overflow, and the model steps through both builds.

**fabric.** `NoInterference` is ARCHITECTURE.md's "Concurrent transactions on disjoint
address ranges don't interfere": a call whose registers no other call is working on inserts
its operation's result on the store as it is at that moment, though it read under an earlier
lock. `SelfDeadlockOnlyUngated` says what stands between `inject_adapt` and waiting for
itself: the gate and the empty registry. If the two registries were one, as the comments
suggest, the same instance deadlocks (that is the property's mutant). `OnlyPropagateDrains`
says that a full queue is final: `write` drops and `inject_adapt` fails before the
`propagate` that would drain it.

**rotation.** `CyclesAccountForTime` compares rotations and phase with the time a layer was
advanced by, to the tick: `advance` takes one cycle off at a time, and no sequence of pauses and
period changes loses any time but what `as_millis` drops, less than a millisecond for each
advance. A layer advanced by half milliseconds never turns (finding 5). `PhaseInCycleUnlessOutrun`
says when a phase stays in the cycle as its field promises: until one advance is as long as the
period, and every advance is when the period has been scaled to zero, after which the phase is
infinite or NaN for good (finding 6). `PeriodFromOneFactor` says what the two adjustments, each
recomputed from the base period, leave behind in any order. `RotationDrainsNothing`: no rotation
releases a damped echo, because the scheduler drains a propagator of its own (finding 7); that is
also why `AdvanceReturns`, since with the fabric's propagator in its place the callbacks would
take the lock their caller holds (the mutant of both).

**database.** `ListedNeverDenied` and `RegistryImplementsMembership` are the promise of a Bloom
filter across two locks and several threads. `ScanMissesOnlyCollidingSectors` says when
`query_scan` may miss what was there before it began: only in a sector whose hash positions
collide, where the estimate of a filter in use truncates to zero (finding 10).
`UpdateFindsInsertOnlyByType` says which updates of an inserted record go on: those whose entity
id is the entity type, and no other (finding 9). `ParentDeniesOnlyForeignHashes` is the promise of
a merged filter with its one exception: it may deny an address of a child only if its own anchor
hashes the address differently (finding 8). The instance has a parent of each kind.

**models.** `TornOnlyByTwoChanges` is a form of linearizability: a `read` that raced with at
most one change returns a value the register had since the read began. With two changes it does
not; the bound is exact. `LineageDeterminesPayload` and `OnlyDeltasReadAsCorrupt` say what the incremental lineage is good for:
payload and lineage stay paired through lost updates, but `lineage_consistent` calls every
register with an odd number of deltas corrupt, and no other (finding 11). `ConsistentCompoundIsCurrent` covers
`update_base`, which folds a new base in and never takes the old one out.

**tpn.** `SealedPacketFollowsItsControl`: one control register serves all gates and chains, so
the last control packet on time decides whether a ticket opens a gate. `EveryHopIsAccountedFor`
follows every packet that passed through the errors that stop a run. `ClockGoesBackOnlyToBackdated`
says when the clock may run backwards, which the code does not exclude.

**backends.** `HandlesAreLive` follows two raw pointers through reload, double initialisation,
teardown and two threads inside the library: nothing is used after it was freed; what leaks is
exactly a context `load_model` forgot or `init` overwrote (finding 12). `NotReadyOnlyByChoice`: `compute` fails for want of a
ready backend only because the choice does not ask, or because of a teardown in between.
`TailsAreClear` is about the bits past a lane's length under every native operation.

**intent.** `EvolutionAddsNoBit`: a gap outside the first population's bits is never closed,
because mutation only lowers genes (finding 14). `AppliedClosesGap`: the fitness a solution was returned with is what
remains after it is applied, unless the register changed in between. `SignedIntentPassesNoVerifier`:
with the verifier's inverted alignment, nothing is both approved and verified for the
intent the user signed (finding 13). `apply_solution` consults neither.

### Findings

1. **echo_gate** (code bug, echo.rs:172). The test `test_echo_propagation_basic` expects
   `stats.propagated == 1` with an empty registry and the default, gated policy; the code
   skips every dependent.
2. **fabric_refused** (fabric.rs:662 against ARCHITECTURE.md:2087 and 2099). A caller that
   retries after the error merges the delta a second time, which removes it.
3. **fabric_race** (fabric.rs:638 against ARCHITECTURE.md:2087). Both calls return `Ok`.
4. **backends_race** (binetic-llama-cpp/src/lib.rs:301 against 70-71). The mutex guards the
   pointer and is released before the pointer is used.

The others are reported on passing runs. There the property is the promise of a doc, a comment
or a test together with the one exception the code makes, or says what the code does in every
case where they say otherwise. The run, and the theorem about the property, then show the
disagreement and its limits for every reachable state, where a counterexample would show it
once.

5. **rotation**, `CyclesAccountForTime` (rotation.rs:251 against 241). What an advance has below a
   millisecond is dropped at every call.
6. **rotation**, `PhaseInCycleUnlessOutrun` (rotation.rs:255 against 63 and 213). A phase leaves
   "0.0 to 1.0" after an advance of two periods, and for good when a period is zero, as "2x
   faster" makes that of one millisecond.
7. **rotation**, `RotationDrainsNothing` (rotation.rs:297 against echo.rs:9, 194 and
   rotation.rs:104). Damped echoes wait for the next `inject_adapt`, never for a rotation.
8. **database**, `ParentDeniesOnlyForeignHashes` (bloom.rs:105 against 19, 256 and 324-326). A
   filter merged from others with other anchors denies their addresses; `test_bloom_merge`
   expects it to contain them.
9. **database**, `UpdateFindsInsertOnlyByType` (fabric.rs:982 against 1303). `test_fabric_db_update`
   updates id 0 of type 0x1000 after an insert and expects success; the code answers
   "Record not found".
10. **database**, `ScanMissesOnlyCollidingSectors` (bloom.rs:164 against ARCHITECTURE.md:2159). A
    sector whose positions collide counts as empty and is skipped.
11. **models**, `OnlyDeltasReadAsCorrupt` (register.rs:133 against 149 and 284).
    `test_register_delta_update` expects a register to be consistent after one delta.
12. **backends**, `HandlesAreLive` (binetic-llama-cpp/src/lib.rs:116 against 53). An "owning"
    context pointer is dropped without freeing the context, by a reload or a second `init`.
13. **intent**, `SignedIntentPassesNoVerifier` (binetic-intent/src/lib.rs:469 against 420 and 467).
    Equal hashes have the lowest alignment and are refused.
14. **intent**, `EvolutionAddsNoBit` (binetic-intent/src/lib.rs:891 against 8, 640, 890 and 1187).
    The "Gaussian-like" perturbation is never above zero.

### Bounds

- `MCEchoPropagator`, `MCFabric`: `U8 = 2`, the byte scaled to one bit, so that two damped
  rounds overflow it; the code compares the depth with `max_depth` and adds one, and nothing
  depends on the value 256. Queues of 1, 2 and 4 instead of 1024: full, partly full and empty
  all occur with two echoes or three calls.
- `Bits = {1}` in both: lanes `{}` and `{1}`. XOR works bit by bit and the code only asks
  whether a result is zero, so a bit in which two lanes differ and one in which they agree are
  all there is. `Layers = {1, 13}`: one on each side of the damping threshold of 12.
- Echo: three addresses, a two-cycle in which one register is unregistered and a fan-out to
  two; two echoes, two rounds, one refusal. A second round is what re-queueing needs.
- Fabric: an address, its child and a result; two threads; three calls. A lost update takes
  two calls, a full queue two calls and a third to meet it. Stores with and without the child.
- Rotation: layers of 1, 2 and 32 ms and one whose period saturates (`U64 = 96`), a layer in two
  tiers; half a millisecond a tick (`Ticks = 2`) and advances of 1, 3 and 64 ticks: one that
  truncates to nothing, one that loses a tick (two of them are worth a cycle of the layer of 2 ms,
  of which one millisecond is lost), and one of several periods at once; `Unit` = 192 divides by
  every period reached, so no phase is rounded; four calls, enough for a zero period, an advance under it and two
  later reports.
- Database: one entity type, two field sectors and the tombstones', three hashes of which two
  collide in one sector; a parent that is one of its children, and one that is not, so that
  anchors agree and differ; two threads, five calls: an insert of two fields, an update, a clear,
  a scan and an aggregate may overlap.
- Models: one weight and its delta, three compounds, two names, six calls: a base model is
  attached, given a delta model, replaced, and read while both registers change.
- TemporalNetwork: two gates in a row, the second with a ticket, and a route to a third that is
  not registered; packets of two chains; three scheduled.
- Backends: words of two bits with lanes of two and three, so that a last word is partly used;
  two threads (symmetric: they are only compared), two computes, three handles: a model, a
  context, and one more for a reload or a second context. `backends_race` has no symmetry.
- Intent: two genes, two individuals, two generations, three levels of a draw, three other calls;
  lanes of the circuits' length, one shorter, and one without bits.
- Deadlock is not checked: when the bounded calls are used up the systems may stop, and an
  ungated propagate really does stop. `CallsReturn`, `PropagateTerminates`, `AdvanceReturns` and
  `RunReturns` say where stopping is an error.

### Fairness

- `EchoPropagator!FairSpec`: weak fairness of `LoopStep`. A propagate call once begun is run
  by its thread to the end; nobody is obliged to begin one, or to queue.
- `Fabric!FairSpec`: strong fairness of each thread's steps inside a call. Threads are
  scheduled by the operating system, and the locks are parking_lot's, which hand over to the
  longest waiter at regular intervals, so a thread that finds a lock free again and again
  gets it. Beginning a call is not fair. Under this assumption a thread that waits for its
  own lock still never returns, which is why `CallsReturn` is about gated policies.
- `Rotation!Fairness`: weak fairness of each thread's steps inside `advance_rotation`, which
  holds its lock from the beginning; again no call has to begin.
- `TemporalNetwork!Spec`: weak fairness of `RunStep` and `RunDone`, the loop of one
  `run_until_idle`. `RunReturns` is about routes without cycles, as in `MCTemporalNetwork`.
- The other modules claim no liveness.

## 4. What is proved

All theorems are about `Spec`, for arbitrary constants that satisfy the named assumptions
of the modules, which TLC evaluates in the passing runs:

- `EchoConstants`, `FabricConstants`, `DatabaseConstants`, `LineageConstants` and
  `ModelsConstants`: types of the constants, `U8 > 1`, model values distinct from data, and of the
  tombstones' sector that it is not sector 0.
- `BloomConstants`: hashing a sector gives at least one and at most `NumHashes` positions, and
  the estimate, defined for as many bits as one sector can set at least, truncates to zero for
  fewer than `NumHashes` bits and for no more than these (bloom.rs computes it in floating point).
- `RotationConstants`, and `RotationPowers`: powers of a policy's positive multiplier are positive
  (`^` is arithmetic the provers do not have). `RotationUnit`: a cycle is a multiple of every
  period a layer can have, so that phases are exact where the code rounds.
- `InputsOfRun`: what the caller schedules are packets at numbers of time; a route is a
  sequence of addresses; a hash is not the absence of one.
- `BackendsConstants`: numbers, ids and the absence of either are distinct, the stores begin
  with lanes of whole words.
- `IntentConstants`: the number of genes is positive, there are at least two individuals (with one
  there is nothing to sort), a mutation's rate lies
  below one half, and lanes have their bits within their length.

The invariants named below were checked with TLC before they were proved.

`EchoPropagatorProofs`

| Theorem | Establishes | Argument |
|---|---|---|
| `TypeCorrect` | `[]TypeOK` | inductive by itself; a damped copy is an echo because its depth is reduced modulo `U8` |
| `DepthIsLimited` | `[]DepthWithinLimit` | inductive: only echoes below the limit are visited, and a copy is one deeper |
| `HotEchoesDrain` | `[]OnlyColdRequeued` | inductive: `DampEcho` alone fills `processed`, other entries of the queue have depth 0 |
| `QueueInvariant`, `ChainsStayBounded` | `[]QueueBoundedForChains` | `QueueInv`: the echo being visited holds the place its one copy may take. The bound alone is not inductive, it does not know that popping made room |
| `DeliveredAtMostOnce` | `[]AtMostOnceDelivery` | `DeliveryInv`: an echo that can be delivered is alone in the queue with its id, and its deliveries are still to come. Copies share ids, but a copy is never deliverable: damping depends on the policy and the layer, and neither changes |

`FabricProofs`, for any number of threads, registers and calls

| Theorem | Establishes | Argument |
|---|---|---|
| `TypeCorrect` | `[]TypeOK` | in three parts: store, propagator, threads |
| `GatedNeverWaitsForItself` | `[]SelfDeadlockOnlyUngated` | `GatedInv`: the propagator's registry stays empty, so behind the gate the holder of the lock never leaves the loop |
| `IsolatedCallsCommute` | `[]NoInterference` | `IsolationInv`: operands exist (`Ready`), nobody who shares registers with an isolated call is in its window (`Apart`), and what the call read is still what the store says (`Fresh`) |
| `WritesAreListed` | `[]BloomCoversWrites` | `ListedInv`: compute inserts its declared results only |
| `FullQueueStaysFull` | `OnlyPropagateDrains`, an action property | `HolderInv`: the loop of propagate runs under the lock |

`DatabaseProofs`, for any hash function, number of threads, entities, records and calls

| Theorem | Establishes | Argument |
|---|---|---|
| `TypeCorrect` | `[]TypeInv` | types, and that what a call has found or stored stays in the store (registers are never removed) |
| `NoFalseNegatives` | `[]ListedNeverDenied` | inductive with the types: an insertion adds bits and keeps the anchor (`ListingAdds`), nothing else but a clear changes a filter (`RegistrySteps`) |
| `FilterIsWhatRebuildMakes` | `[]FilterIsRebuild` | not inductive alone: a filter made anew must have no listed address yet, which `ListedNeverDenied` gives (`RegistryInv`) |
| `RegistryRefines` | `RegistryImplementsMembership` | the initial states map to initial states; each step maps to `Insert`, `Clear` or a stutter |
| `UpdateFindsInserts` | `UpdateFindsInsertOnlyByType`, an action property | `StorableInv`: whatever is stored, or waits in a call to be, is a result, a tombstone, or has its entity type for key |
| `ScansMissOnlyCollidingSectors` | `[]ScanMissesOnlyCollidingSectors` | `SectorFull`: a filter that is there has all the bits of its sector, `NumHashes` of them if none collide, and then its estimate is not zero. `ScanInv`: what a scan has passed over, taken and still to look at covers what was there when it began |
| `ParentsDenyOnlyForeignHashes` | `[]ParentDeniesOnlyForeignHashes` | `ParentsInv`: a parent has every bit its children had for the listed addresses, since the fold over the children keeps what each of them adds, else there were a least number of children that lose one (`MergesKeepBits`); under an anchor that gives the same positions the address is then not denied |

`RotationProofs`, for any tiers, policies, durations and number of threads

| Theorem | Establishes | Argument |
|---|---|---|
| `TypeCorrect` | `[]TypeOK` | inductive by itself; the layers are finite in number, so what one advance completes can be counted (`LayersFinite`), and each has a first tier (`TierOfLayer`) |
| `TimeIsAccountedFor` | `[]CyclesAccountForTime` | inductive with the types: one advance takes off the phase what it adds to the count, only finite phases add up to a finite one (`AdvanceLayerFacts`, `PlusType`), and truncation costs less than a millisecond's phase (`MillisOfTicks`, `IncrementOfTime`) |
| `PhasesStayInCycle` | `[]PhaseInCycleUnlessOutrun` | inductive with the types: less than a period is worth less than a cycle (`ShortIncrement`), so taking one cycle off is enough |
| `OneFactorAtATime` | `[]PeriodFromOneFactor` | inductive: each adjustment starts again from the base period (`SetPeriodsType`) |
| `NothingDrained` | `[]RotationDrainsNothing` | inductive: the scheduler's propagator stays empty, so a rotation adds no echoes to its results, nor those to the statistics |

`ModelsProofs`, for any addresses, lane width, payloads, deltas, names and number of threads

| Theorem | Establishes | Argument |
|---|---|---|
| `TypeCorrect` | `[]TypeOK` | `TypeInv`: every register, stored or on its way to be, belongs with its lineage (`Belongs`), and every attached model covers the one range |
| `LineageTellsPayload` | `[]LineageDeterminesPayload` | from `TypeInv`: toggling one lane of a set changes its XOR by that lane (`XorOfToggled`, by the parity of the lanes with a bit) |
| `DeltasReadAsCorrupt` | `[]OnlyDeltasReadAsCorrupt` | from `TypeInv`: the constant in a lineage is there exactly after an even number of deltas |
| `TornOnlyByTwo` | `[]TornOnlyByTwoChanges` | `ReadInv`: what a read in progress holds, relative to what has changed since it began. The property speaks of a read at its end only and is not inductive |
| `ConsistentCompoundsAreCurrent` | `[]ConsistentCompoundIsCurrent` | `ChainInv`: the payloads in a chain's lineage add up to its payload, also after `update_base`. The same holds of its bases by `TypeInv`, and both folds over them stay in step (`ChainTells`, from `XorOfXor`) |

`TemporalNetworkProofs`, for any gates, routes, packets, hashes and schedules

| Theorem | Establishes | Argument |
|---|---|---|
| `TypesHold`, `TypeCorrect` | `[]TypeOK` | `Types` adds that the queue is a bag of events and the log a sequence of entries |
| `ClockGoesBackOnlyByTheCaller` | `ClockGoesBackOnlyToBackdated`, an action property | `BehindIsBackdated`: an event behind the clock was scheduled there; hops are scheduled ahead |
| `TicketOpensForItsControl` | `[]SealedPacketFollowsItsControl` | `RegisterIsLatest`: the control register has the hash of the last control packet on time; `SealedAt` says of each log entry what the property says of them all, and later entries do not change it |
| `NoHopIsLost` | `[]EveryHopIsAccountedFor` | inductive with the types: a hop is queued with its entry, and leaves the queue only into a later entry, whichever of the events of one time the heap yields |

`BackendsProofs`, for any number of threads, calls and handles, any operands and word width

| Theorem | Establishes | Argument |
|---|---|---|
| `TypesHold`, `TypeCorrect` | `[]TypeOK` | every native operation, with its failures, returns a whole lane from whole lanes (a lemma for each); the operands found are an induction over the sequence (`Walk`) |
| `NoBitBeyondTheLength` | `[]TailsAreClear` | from `Types`: `not_inplace` masks the last word, the others add no bit |
| `NoPointerOutlivesItsHandle` | `[]HandlesAreLive` | `Pointers`: the backend's context is live and was made for its model; `Uses`: a context a thread took along is still the backend's, because the set's write lock waits for the threads that execute |
| `NotReadyOnlyByTheChoice` | `[]NotReadyOnlyByChoice` | `SureIsReady`: a sure choice is of a backend that is still in the set and ready |

`IntentProofs`, for any numbers of genes, individuals and generations, any lanes and draws

| Theorem | Establishes | Argument |
|---|---|---|
| `TypeCorrect` | `[]Types` | crossover and mutation give genes from genes, and a solution is one of the individuals |
| `OneOrderToSortBy` | sorting by fitness has exactly one outcome while the engine evolves | an individual's place is one more than the number of those before it (`PlacesInOrder`); an order that rises along the places is the one that gives each its place (`RisingIsIdentity`) |
| `BestOnlyImproves` | `BestNeverWorsens`, an action property | `BestInv`: after a generation the recorded distance is that of the first individual, which is an elite and is not mutated |
| `EvolutionOnlyClearsBits` | `EvolutionAddsNoBit`, an action property | a child's gene is at or above one half only if that of its parent is: a perturbation is below the rate |
| `AppliedSolutionsKeepTheirDistance` | `AppliedClosesGap`, an action property | `SolutionInv`: the solution's fitness is the distance it leaves from the state it was evolved for, which is the register's while not stale |
| `SignedIntentFailsVerifier` | `[]SignedIntentPassesNoVerifier` | `JudgeInv`: what was approved has the signed hash, and a hash is at the lowest alignment with itself |

Every safety invariant and every action property of the passing runs has its theorem. Only
model-checked are the liveness properties (`PropagateTerminates`, `CallsReturn`,
`AdvanceReturns`, `RunReturns`): liveness under fairness and ENABLED are out of the prover's
reach. The properties of the violated runs are false and have no theorem.

Of what a fold or a recursive function computes the provers cannot use the library's induction
theorems, which take an operator for parameter. Where a proof needs an induction (the merges of
child filters, the operands a call finds, the payload and the lineage of a chain of bases, the
places of a sort) it is made for that function from a counterexample of the least size (`WFMin`
over `Nat`).

## 5. Not modelled, and the plan

Not modelled, and why:
- `address.rs`: bit packing, with tests of its own; the models use the components that matter.
- `network.rs`: a tree of bit matrices with one owner; the fabric hands out copies.
- FFI declarations and build script: nothing happens in them; the library is external.
- The Turing machine demo: a fixed table without a halting transition, stepped by one caller.
- The Python runtime: a single-threaded simulator in floating point, its parser and reports.
- The command line, except the preparation of a backend: parsing and printing.

Left out of components modelled in part:
- Fabric: the temporal pool (one bounds-checked slot a call) and the map of networks.
- Records: a field list without an invariant over calls; their addresses are in `Database`.
- Lanes: resizing, byte conversions, connectivity lanes, bitsliced arrays.
- Tiers: capacities, latencies and energy figures, which nothing decides on.
- Intent: the meta-learner, whose strategies evolution never reads; the training of the
  scoring model (floating point; its verdict is an input); `compute_gap` and `intent_drift`,
  which only read.

Worth proving next:
1. `Fabric`: that calls which do not overlap on their registers implement a store whose calls
   are atomic, as a refinement in the form of `RegistryRefines`; `IsolatedCallsCommute` has the
   invariant it needs.
2. `TemporalNetwork`: that the engine delivers each hop at most once, as a refinement of a set
   of hops to deliver; `NoHopIsLost` is the other half.

The hazards of the whole code, with the properties that cover them, are listed in
`PROJECT.json`.
