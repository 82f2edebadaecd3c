------------------------------- MODULE Models -------------------------------
(***************************************************************************)
(* Attached models and delta resolution of binetic-core/src/fabric.rs, by  *)
(* several threads, over registers that carry their lineage.               *)
(*                                                                         *)
(* Addresses are numbers, the bits of a RegisterAddress. Every model a     *)
(* fabric attaches covers the WeightCount addresses from BaseAddress, and  *)
(* a delta model keeps its deltas in the WeightCount addresses after them. *)
(* `read` takes the store's lock, the models' lock and the store's lock    *)
(* again; inject_adapt reads and writes under two locks. The echoes they   *)
(* queue are the subject of Fabric; tier and quantization of a model and   *)
(* the temporal pool decide nothing here.                                  *)
(***************************************************************************)
EXTENDS Lineage

CONSTANTS
  Threads,
  BaseAddress, WeightCount,  \* ranges::weight_address(0, 0, 0) and 1000
  Names,          \* model names
  NoName,         \* base_model_name: None
  Payloads,       \* payloads callers write
  Deltas,         \* deltas callers inject
  Compounds,      \* <<method, base addresses>> of the compounds callers build
  NoRegister,     \* None
  NoCompound,     \* before a compound is built
  NoCall,         \* a thread outside the fabric
  MaxCalls        \* bound: calls in a behaviour

VARIABLES
  registers,      \* HashMap<RegisterAddress, Register>
  models,         \* HashMap<String, ModelAttachment>
  compound,       \* a CompoundRegister a caller holds
  call,           \* the call each thread is in
  calls,          \* number of calls begun
  deltas,         \* history: deltas merged into each register since it was created
  seen,           \* history: effective payloads of a read's register since the read began
  changed         \* history: which of base, delta and models changed since then

vars == <<registers, models, compound, call, calls, deltas, seen, changed>>

Weights == BaseAddress .. BaseAddress + WeightCount - 1
DeltaAddress(a) == BaseAddress + WeightCount + (a - BaseAddress)

ModelAttachment == [base_address : {BaseAddress}, weight_count : {WeightCount},
                    is_delta : BOOLEAN, base_model_name : Names \cup {NoName}]

ASSUME ModelsConstants ==
  /\ BaseAddress \in Nat /\ WeightCount \in Nat /\ Addr \subseteq Nat
  /\ NoName \notin Names /\ \A p \in Lane : NoRegister # p
  /\ Payloads \subseteq Lane /\ Deltas \subseteq Lane
  /\ \A c \in Compounds : c[1] \in CombiningMethod /\ c[2] \in Seq(Addr)
  /\ MaxCalls \in Nat

-----------------------------------------------------------------------------
(* Resolution. *)

IsDeltaModel(m) == m.is_delta /\ m.base_model_name # NoName

\* `find` takes the first delta model in HashMap order: any of them.
DeltaModels(ms) == {ms[n] : n \in {k \in DOMAIN ms : IsDeltaModel(ms[k])}}

InRange(a, m) == m.base_address <= a /\ a < m.base_address + m.weight_count

\* The payload `resolve` gives when nothing runs beside it; NoRegister is None.
Resolve(rs, ms, a) ==
  IF a \notin DOMAIN rs THEN NoRegister
  ELSE IF (\E m \in DeltaModels(ms) : InRange(a, m)) /\ DeltaAddress(a) \in DOMAIN rs
    THEN Xor(rs[a].payload, rs[DeltaAddress(a)].payload)
    ELSE rs[a].payload

Reading(t) == call[t] # NoCall /\ call[t].pc \in {"models", "delta"}

At(rs, a) == IF a \in DOMAIN rs THEN rs[a].payload ELSE NoRegister

\* What every read in progress sees go by.
Observe ==
  /\ seen' = [t \in Threads |-> IF Reading(t)
                THEN seen[t] \cup {Resolve(registers', models', call[t].address)} ELSE seen[t]]
  /\ changed' = [t \in Threads |-> IF Reading(t)
       THEN LET a == call[t].address IN changed[t]
              \cup {x \in {"base"} : At(registers', a) # At(registers, a)}
              \cup {x \in {"delta"} : At(registers', DeltaAddress(a)) # At(registers, DeltaAddress(a))}
              \cup {x \in {"models"} : DeltaModels(models') # DeltaModels(models)}
       ELSE changed[t]]

-----------------------------------------------------------------------------
(* The operations. *)

Init ==
  /\ registers = [a \in {} |-> NewRegister(a, {})]
  /\ models = [n \in {} |-> NoRegister]
  /\ compound = NoCompound
  /\ call = [t \in Threads |-> NoCall]
  /\ calls = 0
  /\ deltas = [a \in Addr |-> 0]
  /\ seen = [t \in Threads |-> {}]
  /\ changed = [t \in Threads |-> {}]

Begin(t, c) ==
  /\ call[t] = NoCall
  /\ calls < MaxCalls
  /\ calls' = calls + 1
  /\ call' = [call EXCEPT ![t] = c]

InCall(t, pc) == call[t] # NoCall /\ call[t].pc = pc
Become(t, c) == call' = [call EXCEPT ![t] = c]

Store(a, r) == registers' = [b \in DOMAIN registers \cup {a} |->
                               IF b = a THEN r ELSE registers[b]]

\* `write` of a register the caller has just made.
Write(t, a, payload) ==
  /\ Begin(t, NoCall)
  /\ Store(a, NewRegister(a, payload))
  /\ deltas' = [deltas EXCEPT ![a] = 0]
  /\ UNCHANGED <<models, compound>>
  /\ Observe

\* inject_adapt_raw, under one lock.
InjectAdaptRaw(t, a, delta) ==
  /\ a \in DOMAIN registers
  /\ Begin(t, NoCall)
  /\ Store(a, UpdateWithDelta(registers[a], delta))
  /\ deltas' = [deltas EXCEPT ![a] = @ + 1]
  /\ UNCHANGED <<models, compound>>
  /\ Observe

\* inject_adapt: the raw register is read and updated, then written.
InjectAdapt(t, a, delta) ==
  /\ a \in DOMAIN registers
  /\ Begin(t, [pc |-> "adapt", register |-> UpdateWithDelta(registers[a], delta),
               count |-> deltas[a] + 1])
  /\ UNCHANGED <<registers, models, compound, deltas, seen, changed>>

AdaptWrite(t) ==
  /\ InCall(t, "adapt")
  /\ LET r == call[t].register
     IN Store(r.address, r) /\ deltas' = [deltas EXCEPT ![r.address] = call[t].count]
  /\ Become(t, NoCall)
  /\ UNCHANGED <<models, compound, calls>>
  /\ Observe

AttachModel(t, name, is_delta, base) ==
  /\ Begin(t, NoCall)
  /\ models' = [n \in DOMAIN models \cup {name} |->
       IF n = name THEN [base_address |-> BaseAddress, weight_count |-> WeightCount,
                         is_delta |-> is_delta, base_model_name |-> base]
                   ELSE models[n]]
  /\ UNCHANGED <<registers, compound, deltas>>
  /\ Observe

\* attach_delta_model copies the base model and lets the lock go.
AttachDeltaModel(t, name, base) ==
  /\ base \in DOMAIN models
  /\ Begin(t, [pc |-> "attach", name |-> name,
               model |-> [models[base] EXCEPT !.is_delta = TRUE, !.base_model_name = base]])
  /\ UNCHANGED <<registers, models, compound, deltas, seen, changed>>

AttachInsert(t) ==
  /\ InCall(t, "attach")
  /\ models' = [n \in DOMAIN models \cup {call[t].name} |->
                  IF n = call[t].name THEN call[t].model ELSE models[n]]
  /\ Become(t, NoCall)
  /\ UNCHANGED <<registers, compound, calls, deltas>>
  /\ Observe

\* read: the register, cloned under the first lock. A missing one is None at once.
ReadRegister(t, a) ==
  /\ a \in DOMAIN registers
  /\ Begin(t, [pc |-> "models", address |-> a, payload |-> registers[a].payload])
  /\ seen' = [seen EXCEPT ![t] = {Resolve(registers, models, a)}]
  /\ changed' = [changed EXCEPT ![t] = {}]
  /\ UNCHANGED <<registers, models, compound, deltas>>

\* read: the models' lock is let go before the delta is looked up.
ReadModels(t) ==
  /\ InCall(t, "models")
  /\ LET a == call[t].address IN
     IF DeltaModels(models) = {} THEN Become(t, [call[t] EXCEPT !.pc = "return"])
     ELSE \E m \in DeltaModels(models) :
            Become(t, [call[t] EXCEPT !.pc = IF InRange(a, m) THEN "delta" ELSE "return"])
  /\ UNCHANGED <<registers, models, compound, calls, deltas, seen, changed>>

\* Mutant of ReadDelta: the delta alone is returned.
ReadDeltaAlone(t) ==
  /\ InCall(t, "delta")
  /\ LET d == DeltaAddress(call[t].address)
     IN Become(t, [call[t] EXCEPT !.pc = "return", !.payload =
          IF d \in DOMAIN registers THEN registers[d].payload ELSE @])
  /\ UNCHANGED <<registers, models, compound, calls, deltas, seen, changed>>

ReadDelta(t) ==
  /\ InCall(t, "delta")
  /\ LET d == DeltaAddress(call[t].address)
     IN Become(t, [call[t] EXCEPT !.pc = "return", !.payload =
          IF d \in DOMAIN registers THEN Xor(@, registers[d].payload) ELSE @])
  /\ UNCHANGED <<registers, models, compound, calls, deltas, seen, changed>>

ReadReturn(t) ==
  /\ InCall(t, "return")
  /\ Become(t, NoCall)
  /\ seen' = [seen EXCEPT ![t] = {}]
  /\ changed' = [changed EXCEPT ![t] = {}]
  /\ UNCHANGED <<registers, models, compound, calls, deltas>>

\* A caller builds a compound of stored registers, or names one by its addresses.
BuildCompound(t, c) ==
  /\ ToSet(c[2]) \subseteq DOMAIN registers
  /\ Begin(t, NoCall)
  /\ \/ compound' = NewCompound(c[1], [i \in DOMAIN c[2] |-> registers[c[2][i]]])
     \/ compound' = FromAddresses(c[1], c[2])
  /\ UNCHANGED <<registers, models, deltas, seen, changed>>

\* A caller updates a base with a stored register.
UpdateCompound(t, i, a) ==
  /\ compound # NoCompound /\ i \in DOMAIN compound.base_addresses
  /\ a \in DOMAIN registers
  /\ Begin(t, NoCall)
  /\ compound' = UpdateBase(compound, i, registers[a])
  /\ UNCHANGED <<registers, models, deltas, seen, changed>>

Next == \E t \in Threads :
  \/ \E a \in Addr :
       \/ \E p \in Payloads : Write(t, a, p)
       \/ \E d \in Deltas : InjectAdaptRaw(t, a, d) \/ InjectAdapt(t, a, d)
       \/ ReadRegister(t, a)
       \/ \E i \in 1 .. 2 : UpdateCompound(t, i, a)
  \/ \E n \in Names :
       \/ \E is_delta \in BOOLEAN, b \in Names \cup {NoName} : AttachModel(t, n, is_delta, b)
       \/ \E b \in Names : AttachDeltaModel(t, n, b)
  \/ \E c \in Compounds : BuildCompound(t, c)
  \/ AdaptWrite(t) \/ AttachInsert(t)
  \/ ReadModels(t) \/ ReadDelta(t) \/ ReadReturn(t)

Spec == Init /\ [][Next]_vars

-----------------------------------------------------------------------------
(* Properties. *)

\* Every variable stays within its type.
TypeOK ==
  /\ DOMAIN registers \subseteq Addr
  /\ \A a \in DOMAIN registers : registers[a] \in Register /\ registers[a].address = a
  /\ DOMAIN models \subseteq Names
  /\ \A n \in DOMAIN models : models[n] \in ModelAttachment
  /\ compound # NoCompound =>
       compound.combining \in CombiningMethod /\ ToSet(compound.base_addresses) \subseteq Addr
  /\ calls \in 0 .. MaxCalls
  /\ deltas \in [Addr -> Nat]

\* The XOR of every payload a stored register's lineage holds is its payload: whatever
\* deltas two threads merge or lose, the pair a write leaves belongs together, so a lineage
\* tells payloads apart (register.rs:41-46).
LineageDeterminesPayload ==
  \A a \in DOMAIN registers : XorOf(registers[a].xor_lineage.payloads) = registers[a].payload

\* lineage_consistent, "true if consistent, false if corruption detected" (register.rs:149),
\* is right about every register that took no delta since it was stored and wrong about every
\* one that took an odd number (register.rs:133 merges the constant and the delta's hash, :151
\* expects the payload's), whatever deltas two threads lose: test_register_delta_update
\* (register.rs:269-285) expects one delta to leave it consistent.
OnlyDeltasReadAsCorrupt ==
  \A a \in DOMAIN registers :
    /\ deltas[a] = 0 => LineageConsistent(registers[a])
    /\ deltas[a] % 2 = 1 => ~LineageConsistent(registers[a])

\* An XOR-chain compound that is_consistent accepts has its bases' current payload, after
\* any writes to the bases and any calls of update_base (register.rs:491-542).
ConsistentCompoundIsCurrent ==
  compound # NoCompound /\ compound.combining = "XorChain" /\ IsConsistent(compound, registers)
    => compound.payload = CompoundPayload("XorChain", BasesOf(compound, registers))

\* A read returns a payload the register resolved to at some moment since the read began,
\* unless two of its base, its delta and the set of delta models changed meanwhile
\* (fabric.rs:335-351 takes them one lock at a time).
TornOnlyByTwoChanges ==
  \A t \in Threads : InCall(t, "return") /\ Cardinality(changed[t]) < 2
    => call[t].payload \in seen[t]
=============================================================================
