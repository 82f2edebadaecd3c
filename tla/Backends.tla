------------------------------ MODULE Backends ------------------------------
(***************************************************************************)
(* The inference backends: the set the fabric dispatches to and its choice *)
(* (backend.rs), `Fabric::compute` and `Fabric::initialize` (fabric.rs),   *)
(* and the life of what the backends hold: the native one nothing, MLX a   *)
(* path and a flag, llama.cpp a model and a context allocated by a C       *)
(* library, with raw pointers to them.                                     *)
(*                                                                         *)
(* A backend is prepared by its owner, boxed, and added to the set; from   *)
(* then on it is reached only through the set's lock, which `compute`      *)
(* takes twice for reading, to choose and to execute, and everything that  *)
(* changes a backend takes for writing.  The C library is external: a call *)
(* succeeds or fails, and a handle is live from its allocation to its free.*)
(***************************************************************************)
EXTENDS Lanes, FiniteSetsExt, Functions

CONSTANTS Threads, None,
          Ops,            \* the operations computed, by their names
          X, Y, Z,        \* registers: two operands, and the result
          Operands,       \* operand lists, sequences of registers
          Stores,         \* what X and Y may hold at first: functions of the two
          Wanted,         \* the backends a caller names, None among them
          EnergyAware,    \* the values of config.rotation.energy_aware
          Embd, LayerCount,   \* n_embd and n_layers of every model
          MaxHandles,     \* bound: handles the C library gives out
          MaxCalls        \* bound: calls of compute, of all threads

Ids == {"native", "llama", "mlx"}

\* The registers start with whole lanes or nothing, and the result's with nothing.
ASSUME BackendsConstants ==
  /\ {Embd, LayerCount, MaxHandles, MaxCalls} \subseteq Nat
  /\ None \notin Nat /\ None \notin Ids
  /\ Wanted \subseteq Ids \cup {None}
  /\ Z \notin {X, Y}
  /\ \A s \in Operands : s \in Seq({X, Y, Z})
  /\ \A f \in Stores, r \in {X, Y} : f[r] # None => IsLane(f[r])

VARIABLES
  backends,      \* BackendSet: ids in the order they were added
  llama,         \* its fields: model, ctx, path, and whether it knows sizes
  mlx,           \* its fields: initialized, path
  models,        \* external: model handles that are live
  contexts,      \* external: live context handles, with the model of each
  handles,       \* handles given out
  replaced,      \* history: a context was dropped or overwritten, not freed
  initialized,   \* Fabric::initialized
  energy_aware,  \* config.rotation.energy_aware
  registers,     \* the store
  call,          \* thread -> what its compute is doing
  calls          \* calls of compute made

vars == <<backends, llama, mlx, models, contexts, handles, replaced,
          initialized, energy_aware, registers, call, calls>>
library == <<models, contexts, handles, replaced>>
lives   == <<llama, mlx, models, contexts, handles, replaced>>
fabric  == <<initialized, energy_aware, registers, call, calls>>

Idle == [pc |-> "idle"]

Init ==
  /\ backends = <<"native">>
  /\ llama = [model |-> None, ctx |-> None, path |-> FALSE, sized |-> FALSE]
  /\ mlx = [initialized |-> FALSE, path |-> FALSE]
  /\ models = {} /\ contexts = [h \in {} |-> None]
  /\ handles = 0 /\ replaced = FALSE
  /\ initialized = FALSE
  /\ energy_aware \in EnergyAware
  /\ \E f \in Stores : registers = [r \in {X, Y, Z} |-> IF r = Z THEN None ELSE f[r]]
  /\ call = [t \in Threads |-> Idle] /\ calls = 0

Added(b) == \E i \in DOMAIN backends : backends[i] = b
Without(f, h) == [k \in DOMAIN f \ {h} |-> f[k]]

(***************************************************************************)
(* The llama.cpp backend.                                                  *)
(***************************************************************************)
LoadKeepsContext(ok) ==       \* mutant: the context pointer outlives its model
  /\ handles < MaxHandles
  /\ llama' = [model |-> IF ok THEN handles ELSE None, ctx |-> llama.ctx,
               path |-> ok \/ llama.path, sized |-> ok \/ llama.sized]
  /\ models' = (models \ {llama.model}) \cup (IF ok THEN {handles} ELSE {})
  /\ handles' = handles + 1
  /\ UNCHANGED <<contexts, replaced>>

\* `load_model` of a file that is there: the old model is freed first, the old
\* context pointer is taken and forgotten; when the library cannot load the
\* file, path and sizes stay those of the model that is gone.
Load(ok) ==
  /\ handles < MaxHandles
  /\ llama' = [model |-> IF ok THEN handles ELSE None, ctx |-> None,
               path |-> ok \/ llama.path, sized |-> ok \/ llama.sized]
  /\ models' = (models \ {llama.model}) \cup (IF ok THEN {handles} ELSE {})
  /\ handles' = handles + 1
  /\ replaced' = (replaced \/ llama.ctx # None)
  /\ UNCHANGED contexts

\* `init`: a context for the model, over whatever context there was.
InitContext(ok) ==
  /\ llama.model # None
  /\ IF ok THEN /\ handles < MaxHandles
                /\ llama' = [llama EXCEPT !.ctx = handles]
                /\ contexts' = [h \in DOMAIN contexts \cup {handles} |->
                                  IF h = handles THEN llama.model ELSE contexts[h]]
                /\ handles' = handles + 1
                /\ replaced' = (replaced \/ llama.ctx # None)
           ELSE UNCHANGED <<llama, contexts, handles, replaced>>
  /\ UNCHANGED models

Unmap(l) == [l EXCEPT !.path = FALSE]

\* `teardown`, and what `drop` does of it: context, then model; the sizes stay.
Teardown ==
  /\ contexts' = Without(contexts, llama.ctx)
  /\ models' = models \ {llama.model}
  /\ llama' = Unmap([llama EXCEPT !.model = None, !.ctx = None])
  /\ UNCHANGED <<handles, replaced>>

\* The owner's calls, before the backend is in the set.
OwnLlama ==
  /\ ~Added("llama")
  /\ \/ \E ok \in BOOLEAN : Load(ok)
     \/ \E ok \in BOOLEAN : InitContext(ok)
     \/ llama' = Unmap(llama) /\ UNCHANGED library
     \/ Teardown
  /\ UNCHANGED <<backends, mlx, fabric>>

(***************************************************************************)
(* The MLX backend; it exists on macOS only, where it is available.        *)
(***************************************************************************)
OwnMlx ==
  /\ ~Added("mlx")
  /\ \/ mlx' = [mlx EXCEPT !.path = TRUE]
     \/ mlx' = [mlx EXCEPT !.initialized = TRUE]
  /\ UNCHANGED <<backends, llama, library, fabric>>

(***************************************************************************)
(* The set, behind its lock: `compute` holds it for reading from the       *)
(* second lookup until the backend has answered.                           *)
(***************************************************************************)
Readers == {t \in Threads : call[t].pc = "ffi"}

Add(b) ==
  /\ ~Added(b) /\ Readers = {}
  /\ backends' = Append(backends, b)
  /\ UNCHANGED <<lives, fabric>>

\* A backend is changed in the set: no call that chose before can be sure.
Disturbed == [t \in Threads |->
  IF call[t].pc = "dispatch" THEN [call[t] EXCEPT !.sure = FALSE] ELSE call[t]]

\* `with_backend_mut`: the trait offers init and teardown.
ChangeLlama ==
  /\ Added("llama") /\ Readers = {}
  /\ \/ \E ok \in BOOLEAN : InitContext(ok)
     \/ Teardown
  /\ call' = Disturbed
  /\ UNCHANGED <<backends, mlx, initialized, energy_aware, registers, calls>>

ChangeMlx ==
  /\ Added("mlx") /\ Readers = {}
  /\ \/ mlx' = [mlx EXCEPT !.initialized = TRUE]
     \/ mlx' = [initialized |-> FALSE, path |-> FALSE]
  /\ call' = Disturbed
  /\ UNCHANGED <<backends, llama, library, initialized, energy_aware, registers, calls>>

Place(b) == CHOOSE i \in DOMAIN backends : backends[i] = b

\* `Fabric::initialize`: every backend in order, up to the first that fails.
Initialize ==
  /\ ~initialized /\ Readers = {}
  /\ \/ /\ ~Added("llama")
        /\ UNCHANGED <<llama, library>> /\ initialized' = TRUE
     \/ /\ Added("llama") /\ llama.model = None
        /\ UNCHANGED <<llama, library, initialized>>
     \/ /\ Added("llama")
        /\ \E ok \in BOOLEAN : InitContext(ok) /\ initialized' = ok
  /\ mlx' = IF Added("mlx") /\ (initialized' \/ Place("mlx") < Place("llama"))
            THEN [mlx EXCEPT !.initialized = TRUE] ELSE mlx
  /\ call' = Disturbed
  /\ UNCHANGED <<backends, energy_aware, registers, calls>>

(***************************************************************************)
(* The choice.                                                             *)
(***************************************************************************)
InsideEval == {"MatMul", "QuantizedMatMul", "SampleNextToken", "Softmax", "Attention"}
LlamaOps == InsideEval \cup {"Add", "LayerNorm", "RMSNorm", "RoPE"} \cup (NativeOps \ {"Mul"})
MlxOps == {"MatMul", "Add", "Mul", "Softmax", "Attention", "LayerNorm",
           "RMSNorm", "RoPE", "SiLU", "GELU", "SampleNextToken"}
SupportedOps(b) ==
  CASE b = "native" -> NativeOps [] b = "llama" -> LlamaOps [] b = "mlx" -> MlxOps

CanHandleAny(b, op) == op # "Custom"     \* mutant: the op is not looked up
CanHandle(b, op) == op \in SupportedOps(b)

AtLeast1(n) == IF n = 0 THEN 1 ELSE n
E == IF llama.sized THEN Embd ELSE 0
L == IF llama.sized THEN LayerCount ELSE 0

LlamaEnergy(op) ==
  AtLeast1(CASE op = "QuantizedMatMul" -> (E * L * 2) \div 10
             [] op = "MatMul" -> E * L
             [] op = "Attention" -> E * L * 2
             [] op = "SampleNextToken" -> E * 10
             [] op \in {"Softmax", "LayerNorm", "RMSNorm", "RoPE", "SiLU", "GELU",
                        "Add", "Mul"} -> E
             [] OTHER -> 100)

LlamaLatency(op) ==
  AtLeast1(CASE op = "QuantizedMatMul" -> (L * E * 2) \div 100
             [] op = "MatMul" -> L * E
             [] op = "Attention" -> L * E * 2
             [] op = "SampleNextToken" -> L * 100
             [] op \in {"Softmax", "RoPE"} -> L * 10
             [] op \in {"LayerNorm", "RMSNorm", "SiLU", "GELU"} -> L * 5
             [] op \in {"Add", "Mul"} -> L
             [] OTHER -> 100)

MlxLatency(op) ==
  CASE op = "MatMul" -> 200 [] op = "QuantizedMatMul" -> 300
    [] op = "Softmax" -> 20 [] op = "Attention" -> 800
    [] op = "SampleNextToken" -> 3000 [] op \in {"LayerNorm", "RMSNorm"} -> 50
    [] op \in {"SiLU", "GELU"} -> 20 [] op \in {"Add", "Mul"} -> 5 [] OTHER -> 100

MlxEnergy(op) ==
  CASE op = "MatMul" -> 200 [] op = "QuantizedMatMul" -> 300 [] op = "Attention" -> 800
    [] op = "SampleNextToken" -> 3000 [] OTHER -> 50

\* The score in ten-thousandths; native is estimated by its operands, none of
\* which is remote here.
Score(b, op, n) ==
  LET energy  == CASE b = "native" -> 640 * n
                   [] b = "llama" -> LlamaEnergy(op) [] b = "mlx" -> MlxEnergy(op)
      latency == CASE b = "native" -> (n + 1) * 10
                   [] b = "llama" -> LlamaLatency(op) [] b = "mlx" -> MlxLatency(op)
  IN IF energy_aware THEN 10000 * energy + 10 * latency
                     ELSE 10000 * latency + energy

\* `select_best`: the first with the least score; readiness plays no part.
SelectBest(op, n) ==
  LET able == {i \in DOMAIN backends : CanHandle(backends[i], op)}
  IN IF able = {} THEN None
     ELSE backends[Min({i \in able : \A j \in able :
            Score(backends[i], op, n) <= Score(backends[j], op, n)})]

Ready(b) ==
  CASE b = "native" -> TRUE
    [] b = "llama" -> llama.ctx # None /\ llama.model # None /\ llama.path
    [] b = "mlx" -> mlx.initialized /\ mlx.path

(***************************************************************************)
(* `Fabric::compute`, in the steps its locks cut it into.                  *)
(***************************************************************************)
\* History of a call, for the properties: it left the choice to select_best and
\* every backend that supports the operation was ready then.
Sure(op, wanted) == wanted = None /\ \A i \in DOMAIN backends :
  op \in SupportedOps(backends[i]) => Ready(backends[i])

\* The caller may name a backend, which is then not asked whether it can.
Select(t, op, operands, wanted) ==
  /\ call[t].pc \in {"idle", "unready"} /\ calls < MaxCalls
  /\ calls' = calls + 1
  /\ LET chosen == IF wanted # None THEN wanted ELSE SelectBest(op, Len(operands))
     IN call' = [call EXCEPT ![t] =
          IF chosen = None THEN Idle       \* "No suitable backend found"
          ELSE [pc |-> "dispatch", op |-> op, operands |-> operands,
                chosen |-> chosen, sure |-> Sure(op, wanted)]]
  /\ UNCHANGED <<backends, lives, initialized, energy_aware, registers>>

\* The payloads of the operands that are in the store, in order.
Found(operands) ==
  LET found[n \in 0..Len(operands)] ==
        IF n = 0 THEN <<>>
        ELSE IF registers[operands[n]] = None THEN found[n - 1]
        ELSE Append(found[n - 1], registers[operands[n]])
  IN found[Len(operands)]

First(lanes) == IF lanes = <<>> THEN WithCapacity(0) ELSE lanes[1]

\* What llama.cpp's own operations answer: an error of the library, or one bit of
\* what the model gives, or nothing at all when it has no logits.
Bit == {Answer(FromBits(1, {})), Answer(FromBits(1, {0}))}
NoLogits == Answer(WithCapacity(0))

ExecuteSampleNextToken == {Failure("library")} \cup Bit
ExecuteSoftmax == {Failure("library")} \cup Bit
ExecuteAttention == {Failure("library"), NoLogits} \cup Bit
ExecuteMatMul(lanes) ==
  IF lanes # <<>> /\ lanes[1].num_bits = 0 THEN {Failure("tokens")}
  ELSE {Failure("library"), NoLogits} \cup Bit

\* What `execute` answers.
Answers(b, op, lanes) ==
  IF ~Added(b) THEN {Failure("default")}
  ELSE IF ~Ready(b) THEN {Failure("not ready")}
  ELSE CASE b = "native" -> {NativeExecute(op, lanes)}
         [] b = "llama" /\ op = "SampleNextToken" -> ExecuteSampleNextToken
         [] b = "llama" /\ op \in {"MatMul", "QuantizedMatMul"} -> ExecuteMatMul(lanes)
         [] b = "llama" /\ op = "Softmax" -> ExecuteSoftmax
         [] b = "llama" /\ op = "Attention" -> ExecuteAttention
         [] OTHER -> {Answer(First(lanes))}

\* The second lookup and execute.  `ctx` is read under its mutex and used after.
Dispatch(t) ==
  /\ call[t].pc = "dispatch"
  /\ LET c == call[t]
     IN \E a \in Answers(c.chosen, c.op, Found(c.operands)) :
          call' = [call EXCEPT ![t] =
            [pc |-> "ffi", answer |-> a, sure |-> c.sure,
             uses |-> IF c.chosen = "llama" /\ Added("llama") /\ Ready("llama") /\ c.op \in InsideEval
                      THEN llama.ctx ELSE None]]
  /\ UNCHANGED <<backends, lives, initialized, energy_aware, registers, calls>>

\* The guard is released.  An answer is still to be stored; of how a call failed only
\* that its backend was not ready is kept.  A panic of the merge unwinds through here.
Release(t) ==
  /\ call[t].pc = "ffi"
  /\ LET a == call[t].answer
     IN call' = [call EXCEPT ![t] =
          IF a.ok THEN [pc |-> "store", lane |-> a.lane]
          ELSE IF a.why = "not ready" THEN [pc |-> "unready", sure |-> call[t].sure]
          ELSE Idle]
  /\ UNCHANGED <<backends, lives, initialized, energy_aware, registers, calls>>

\* The answer is stored under the result address, behind the registers' lock alone: the
\* set may have changed since the backend gave it, and another call may have stored its own.
Store(t) ==
  /\ call[t].pc = "store"
  /\ registers' = [registers EXCEPT ![Z] = call[t].lane]
  /\ call' = [call EXCEPT ![t] = Idle]
  /\ UNCHANGED <<backends, lives, initialized, energy_aware, calls>>

Next ==
  \/ OwnLlama \/ OwnMlx \/ ChangeLlama \/ ChangeMlx \/ Initialize
  \/ Add("llama") \/ Add("mlx")
  \/ \E t \in Threads :
       \/ \E op \in Ops, operands \in Operands, b \in Wanted :
            Select(t, op, operands, b)
       \/ Dispatch(t) \/ Release(t) \/ Store(t)

Spec == Init /\ [][Next]_vars

(***************************************************************************)
(* Properties.                                                             *)
(***************************************************************************)
Handle == 0..(MaxHandles - 1)

\* Type invariant: the fields of the backends and of the fabric.
TypeOK ==
  /\ Range(backends) \subseteq Ids /\ backends[1] = "native"
  /\ llama.model \in Handle \cup {None} /\ llama.ctx \in Handle \cup {None}
  /\ models \subseteq Handle /\ DOMAIN contexts \subseteq Handle
  /\ handles \in 0..MaxHandles /\ calls \in 0..MaxCalls
  /\ {mlx.initialized, mlx.path, initialized} \subseteq BOOLEAN
  /\ \A t \in Threads : call[t].pc \in {"idle", "dispatch", "ffi", "store", "unready"}

LiveWithModel(ctx) == ctx \in DOMAIN contexts /\ contexts[ctx] \in models

\* Handles: the context the backend points to was made for the model it points
\* to, both are live, and so is the context every executing thread took out of
\* the mutex; a context that is live and that the backend does not know of is
\* one that load_model forgot or init overwrote.
HandlesAreLive ==
  /\ llama.ctx # None => LiveWithModel(llama.ctx) /\ contexts[llama.ctx] = llama.model
  /\ \A t \in Threads : call[t].pc = "ffi" /\ call[t].uses # None
                       => LiveWithModel(call[t].uses)
  /\ replaced \/ DOMAIN contexts \subseteq {llama.ctx}

\* compute fails for want of a ready backend only when the choice could fall on
\* one that was not, or that was changed between the choice and the execution.
NotReadyOnlyByChoice ==
  \A t \in Threads : call[t].pc = "unready" => ~call[t].sure

\* No bit is ever set beyond the length of a register's lane, where popcount,
\* all_set and equality would count it and no index reaches it.
TailsAreClear ==
  \A r \in DOMAIN registers : registers[r] # None => TailIsClear(registers[r])

\* Of the backend's raw pointers: "all mutation goes through Mutex-protected access"
\* (binetic-llama-cpp/src/lib.rs:70-71). So no two threads evaluate with one context.
OneThreadPerContext ==
  \A t, u \in Threads : t # u /\ call[t].pc = "ffi" /\ call[u].pc = "ffi" /\ call[t].uses # None
                         => call[t].uses # call[u].uses
=============================================================================
