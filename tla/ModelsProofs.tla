----------------------------- MODULE ModelsProofs -----------------------------
(***************************************************************************)
(* Theorems about Models, for any addresses, width, payloads, deltas and   *)
(* number of threads: what a stored register's lineage says of its payload *)
(* and of its deltas, that a read is torn only by two changes, and that a  *)
(* compound register whose lineage is consistent holds what its chain      *)
(* resolves to.                                                            *)
(***************************************************************************)
EXTENDS Models, FiniteSetTheorems, WellFoundedInduction, TLAPS

-----------------------------------------------------------------------------
(* Lanes and lineages. *)

\* XOR stays within the lanes.
LEMMA XorType == \A x, y \in Lane : Xor(x, y) \in Lane
BY DEF Xor, Lane

\* There are finitely many lanes.
LEMMA LanesFinite == IsFiniteSet(Lane)
<1>1. IsFiniteSet(0 .. Width - 1)
  BY LineageConstants, FS_Interval
<1>2. QED  BY <1>1, FS_SUBSET DEF Lane

\* The XOR of one lane is that lane.
LEMMA XorOfOne ==
  ASSUME NEW p \in Lane
  PROVE  XorOf({p}) = p
<1>1. ASSUME NEW b \in 0 .. Width - 1
      PROVE  Cardinality({q \in {p} : b \in q}) % 2 = 1 <=> b \in p
  <2>1. CASE b \in p
    <3>1. {q \in {p} : b \in q} = {p}
      BY <2>1
    <3>2. Cardinality({q \in {p} : b \in q}) = 1
      BY <3>1, FS_Singleton, Zenon
    <3>3. QED  BY <2>1, <3>2
  <2>2. CASE b \notin p
    <3>1. {q \in {p} : b \in q} = {}
      BY <2>2
    <3>2. Cardinality({q \in {p} : b \in q}) = 0
      BY <3>1, FS_EmptySet, Zenon
    <3>3. QED  BY <2>2, <3>2
  <2>3. QED  BY <2>1, <2>2
<1>2. QED  BY <1>1 DEF XorOf, Lane

\* Toggling one lane of a set changes its XOR by that lane.
LEMMA XorOfToggled ==
  ASSUME NEW P \in SUBSET Lane, NEW d \in Lane
  PROVE  XorOf(Xor(P, {d})) = Xor(XorOf(P), d)
<1> DEFINE With(Q, b) == {p \in Q : b \in p}
<1>1. ASSUME NEW b \in 0 .. Width - 1
      PROVE  Cardinality(With(Xor(P, {d}), b)) % 2 = 1
               <=> ((Cardinality(With(P, b)) % 2 = 1) <=> b \notin d)
  <2>1. IsFiniteSet(With(P, b))
    BY LanesFinite, FS_Subset
  <2>2. Cardinality(With(P, b)) \in Nat
    BY <2>1, FS_CardinalityType
  <2>3. CASE b \notin d
    <3>1. With(Xor(P, {d}), b) = With(P, b)
      BY <2>3 DEF Xor
    <3>2. Cardinality(With(Xor(P, {d}), b)) = Cardinality(With(P, b))
      BY <3>1
    <3> HIDE DEF With
    <3>3. QED  BY <2>3, <3>2
  <2>4. CASE b \in d /\ d \in P
    <3>1. With(Xor(P, {d}), b) = With(P, b) \ {d}
      BY <2>4 DEF Xor
    <3>2. d \in With(P, b)
      BY <2>4
    <3> DEFINE S == With(P, b)
               n == Cardinality(S)
               m == Cardinality(With(Xor(P, {d}), b))
    <3> HIDE DEF With
    <3>3. m = n - 1
      BY <2>1, <3>1, <3>2, FS_RemoveElement
    <3>4. n \in Nat
      BY <2>2
    <3>5. m % 2 = 1 <=> ~(n % 2 = 1)
      <4> HIDE DEF n, m
      <4> QED  BY <3>3, <3>4
    <3>6. QED  BY <2>4, <3>5
  <2>5. CASE b \in d /\ d \notin P
    <3>1. With(Xor(P, {d}), b) = With(P, b) \cup {d}
      BY <2>5 DEF Xor
    <3>2. d \notin With(P, b)
      BY <2>5
    <3> DEFINE S == With(P, b)
               n == Cardinality(S)
               m == Cardinality(With(Xor(P, {d}), b))
    <3> HIDE DEF With
    <3>3. m = n + 1
      BY <2>1, <3>1, <3>2, FS_AddElement
    <3>4. n \in Nat
      BY <2>2
    <3>5. m % 2 = 1 <=> ~(n % 2 = 1)
      <4> HIDE DEF n, m
      <4> QED  BY <3>3, <3>4
    <3>6. QED  BY <2>5, <3>5
  <2>6. QED  BY <2>3, <2>4, <2>5
<1>2. \A b \in 0 .. Width - 1 : b \in XorOf(Xor(P, {d})) <=> b \in Xor(XorOf(P), d)
  <2> SUFFICES ASSUME NEW b \in 0 .. Width - 1
               PROVE  b \in XorOf(Xor(P, {d})) <=> b \in Xor(XorOf(P), d)
    OBVIOUS
  <2>1. b \in XorOf(P) <=> Cardinality(With(P, b)) % 2 = 1
    BY DEF XorOf
  <2>2. b \in XorOf(Xor(P, {d})) <=> Cardinality(With(Xor(P, {d}), b)) % 2 = 1
    BY DEF XorOf
  <2>3. b \in Xor(XorOf(P), d) <=> (b \in XorOf(P) <=> b \notin d)
    BY DEF Xor
  <2>4. QED  BY <1>1, <2>1, <2>2, <2>3
<1>3. XorOf(Xor(P, {d})) \subseteq 0 .. Width - 1 /\ Xor(XorOf(P), d) \subseteq 0 .. Width - 1
  BY DEF XorOf, Xor, Lane
<1>4. QED  BY <1>2, <1>3

\* What a register's lineage says of it after n deltas.
Belongs(r, n) ==
  /\ r \in Register
  /\ XorOf(r.xor_lineage.payloads) = r.payload
  /\ r.xor_lineage.constant <=> n % 2 = 0
  /\ n = 0 => r.xor_lineage = InitialLineage(r.address, r.payload)

\* A new register has its own lineage.
LEMMA NewBelongs ==
  ASSUME NEW a \in Addr, NEW p \in Lane
  PROVE  Belongs(NewRegister(a, p), 0) /\ NewRegister(a, p).address = a
BY XorOfOne DEF Belongs, NewRegister, Register, InitialLineage, XorLineage

\* A delta's lineage is merged with its payload.
LEMMA UpdateBelongs ==
  ASSUME NEW r, NEW n \in Nat, Belongs(r, n), NEW d \in Lane
  PROVE  /\ Belongs(UpdateWithDelta(r, d), n + 1)
         /\ UpdateWithDelta(r, d).address = r.address
<1> DEFINE l == r.xor_lineage
           m == Combine(l, DeltaLineage(d))
           u == UpdateWithDelta(r, d)
           x == Xor(r.payload, d)
<1>1. r \in Register /\ l \in XorLineage /\ r.payload \in Lane
  BY DEF Belongs, Register
<1>2. m = [addresses |-> Xor(l.addresses, {}), payloads |-> Xor(l.payloads, {d}),
           constant |-> l.constant # TRUE]
  BY DEF Combine, DeltaLineage
<1>3. /\ l.addresses \subseteq Addr /\ l.payloads \subseteq Lane /\ l.constant \in BOOLEAN
  BY <1>1 DEF XorLineage
<1>4. m \in XorLineage
  BY <1>2, <1>3 DEF Xor, XorLineage
<1>5. x \in Lane
  BY <1>1, XorType
<1>6. u = [r EXCEPT !.payload = x, !.xor_lineage = m, !.checksum = x]
  BY DEF UpdateWithDelta
<1>7. u \in Register /\ u.payload = x /\ u.xor_lineage = m /\ u.address = r.address
  <2> HIDE DEF m, x, u
  <2> QED  BY <1>1, <1>4, <1>5, <1>6 DEF Register
<1>8. XorOf(m.payloads) = x
  BY <1>2, <1>3, XorOfToggled DEF Belongs
<1>9. m.constant <=> (n + 1) % 2 = 0
  <2>1. n % 2 = 0 <=> (n + 1) % 2 # 0
    OBVIOUS
  <2>2. m.constant <=> ~l.constant
    <3>1. m.constant = (l.constant # TRUE)
      <4> HIDE DEF m, l
      <4> QED  BY <1>2
    <3>2. (l.constant # TRUE) <=> ~l.constant
      <4> HIDE DEF m, l
      <4> QED  BY <1>3, Zenon
    <3>3. QED  BY <3>1, <3>2, Zenon
  <2>3. QED  BY <2>1, <2>2 DEF Belongs
<1>10. n + 1 # 0
  OBVIOUS
<1>11. QED  BY <1>7, <1>8, <1>9, <1>10 DEF Belongs

-----------------------------------------------------------------------------
(* Type correctness, with the lineages the types rest on. *)

AdaptCall == [pc : {"adapt"}, register : Register, count : Nat]
AttachCall == [pc : {"attach"}, name : Names, model : ModelAttachment]
ReadCall == [pc : {"models", "delta", "return"}, address : Addr, payload : Lane]

\* Every register, stored or about to be, belongs with its lineage; models and calls are typed.
StoreInv ==
  /\ registers = [a \in DOMAIN registers |-> registers[a]] /\ DOMAIN registers \subseteq Addr
  /\ deltas \in [Addr -> Nat]
  /\ \A a \in DOMAIN registers : Belongs(registers[a], deltas[a]) /\ registers[a].address = a

ModelsInv ==
  /\ DOMAIN models \subseteq Names
  /\ \A n \in DOMAIN models : models[n] \in ModelAttachment

CallsInv ==
  /\ call \in [Threads -> {NoCall} \cup AdaptCall \cup AttachCall \cup ReadCall]
  /\ \A t \in Threads :
       /\ InCall(t, "adapt") => Belongs(call[t].register, call[t].count)
       /\ (\E pc \in {"models", "delta", "return"} : InCall(t, pc)) =>
            call[t].address \in DOMAIN registers

HistoryInv ==
  /\ seen = [t \in Threads |-> seen[t]]
  /\ changed \in [Threads -> SUBSET {"base", "delta", "models"}]

CompoundInv ==
  compound # NoCompound =>
    /\ compound = [combining |-> compound.combining, base_addresses |-> compound.base_addresses,
                   payload |-> compound.payload, xor_lineage |-> compound.xor_lineage]
    /\ compound.combining \in CombiningMethod
    /\ compound.base_addresses \in Seq(Addr)

TypeInv ==
  StoreInv /\ ModelsInv /\ CallsInv /\ HistoryInv /\ CompoundInv /\ calls \in 0 .. MaxCalls

-----------------------------------------------------------------------------
(* The invariant of the types is inductive. *)

\* Storing a register that belongs with n deltas, and saying so in the history.
LEMMA StoreKeeps ==
  ASSUME StoreInv, NEW a \in Addr, NEW r, NEW n \in Nat, Belongs(r, n), r.address = a,
         Store(a, r), deltas' = [deltas EXCEPT ![a] = n]
  PROVE  StoreInv' /\ DOMAIN registers \subseteq DOMAIN registers'
<1>1. registers' = [b \in DOMAIN registers \cup {a} |-> IF b = a THEN r ELSE registers[b]]
  BY DEF Store
<1>2. /\ DOMAIN registers' = DOMAIN registers \cup {a}
      /\ registers'[a] = r
      /\ \A b \in DOMAIN registers \ {a} : registers'[b] = registers[b] /\ deltas'[b] = deltas[b]
  BY <1>1 DEF StoreInv
<1>3. /\ registers' = [b \in DOMAIN registers' |-> registers'[b]]
      /\ deltas' \in [Addr -> Nat] /\ deltas'[a] = n
  BY <1>1 DEF StoreInv
<1>4. \A b \in DOMAIN registers' : Belongs(registers'[b], deltas'[b]) /\ registers'[b].address = b
  BY <1>2, <1>3 DEF StoreInv
<1>5. QED  BY <1>2, <1>3, <1>4 DEF StoreInv

\* A thread's next call, when its register belongs or its address is stored.
LEMMA BecomeKeeps ==
  ASSUME CallsInv, NEW t \in Threads, NEW c \in {NoCall} \cup AdaptCall \cup AttachCall \cup ReadCall,
         call' = [call EXCEPT ![t] = c],
         DOMAIN registers \subseteq DOMAIN registers',
         c # NoCall /\ c.pc = "adapt" => Belongs(c.register, c.count),
         c # NoCall /\ c.pc \in {"models", "delta", "return"} => c.address \in DOMAIN registers'
  PROVE  CallsInv'
<1>1. /\ call' \in [Threads -> {NoCall} \cup AdaptCall \cup AttachCall \cup ReadCall]
      /\ call'[t] = c /\ \A u \in Threads \ {t} : call'[u] = call[u]
  BY DEF CallsInv
<1>2. ASSUME NEW u \in Threads, InCall(u, "adapt")'
      PROVE  Belongs(call'[u].register, call'[u].count)
  BY <1>1, <1>2 DEF CallsInv, InCall
<1>3. ASSUME NEW u \in Threads, NEW pc \in {"models", "delta", "return"}, InCall(u, pc)'
      PROVE  call'[u].address \in DOMAIN registers'
  BY <1>1, <1>3 DEF CallsInv, InCall
<1>4. QED  BY <1>1, <1>2, <1>3 DEF CallsInv

\* Threads are in the calls their pc says.
LEMMA CallKinds ==
  ASSUME CallsInv, NEW t \in Threads
  PROVE  /\ InCall(t, "adapt") => call[t] \in AdaptCall
         /\ InCall(t, "attach") => call[t] \in AttachCall
         /\ (\E pc \in {"models", "delta", "return"} : InCall(t, pc)) => call[t] \in ReadCall
BY DEF CallsInv, InCall, AdaptCall, AttachCall, ReadCall

\* A program starts with an empty store and no calls.
LEMMA TypeInit == Init => TypeInv
<1> SUFFICES ASSUME Init PROVE TypeInv
  OBVIOUS
<1>1. StoreInv /\ ModelsInv
  BY DEF Init, StoreInv, ModelsInv
<1>2. CallsInv
  BY DEF Init, CallsInv, InCall
<1>3. HistoryInv /\ CompoundInv /\ calls \in 0 .. MaxCalls
  BY ModelsConstants DEF Init, HistoryInv, CompoundInv
<1>4. QED  BY <1>1, <1>2, <1>3 DEF TypeInv

\* Every step stores registers that belong, and removes none.
LEMMA StoreStep == TypeInv /\ [Next]_vars => StoreInv' /\ DOMAIN registers \subseteq DOMAIN registers'
<1> SUFFICES ASSUME TypeInv, [Next]_vars
             PROVE  StoreInv' /\ DOMAIN registers \subseteq DOMAIN registers'
  OBVIOUS
<1> USE DEF TypeInv
<1>1. ASSUME NEW t \in Threads, NEW a \in Addr, NEW p \in Payloads, Write(t, a, p)
      PROVE  StoreInv' /\ DOMAIN registers \subseteq DOMAIN registers'
  <2>1. p \in Lane
    BY ModelsConstants
  <2>2. QED  BY <1>1, <2>1, NewBelongs, StoreKeeps DEF Write
<1>2. ASSUME NEW t \in Threads, NEW a \in Addr, NEW d \in Deltas, InjectAdaptRaw(t, a, d)
      PROVE  StoreInv' /\ DOMAIN registers \subseteq DOMAIN registers'
  <2>1. d \in Lane /\ a \in DOMAIN registers
    BY <1>2, ModelsConstants DEF InjectAdaptRaw
  <2>2. Belongs(registers[a], deltas[a]) /\ registers[a].address = a /\ deltas[a] \in Nat
    BY <2>1 DEF StoreInv
  <2>3. /\ Belongs(UpdateWithDelta(registers[a], d), deltas[a] + 1)
        /\ UpdateWithDelta(registers[a], d).address = a
    BY <2>1, <2>2, UpdateBelongs
  <2>4. deltas' = [deltas EXCEPT ![a] = deltas[a] + 1] /\ Store(a, UpdateWithDelta(registers[a], d))
    BY <1>2 DEF InjectAdaptRaw
  <2> DEFINE r == UpdateWithDelta(registers[a], d)
             n == deltas[a] + 1
  <2>5. n \in Nat
    BY <2>2
  <2> HIDE DEF r, n
  <2>6. QED  BY <1>2, <2>3, <2>4, <2>5, StoreKeeps DEF r, n
<1>3. ASSUME NEW t \in Threads, AdaptWrite(t)
      PROVE  StoreInv' /\ DOMAIN registers \subseteq DOMAIN registers'
  <2> DEFINE r == call[t].register
             n == call[t].count
  <2>1. call[t] \in AdaptCall /\ Belongs(r, n)
    BY <1>3, CallKinds DEF AdaptWrite, CallsInv
  <2>2. r \in Register /\ r.address \in Addr /\ n \in Nat
    BY <2>1 DEF AdaptCall, Register
  <2>3. Store(r.address, r) /\ deltas' = [deltas EXCEPT ![r.address] = n]
    BY <1>3 DEF AdaptWrite
  <2>4. QED  BY <2>1, <2>2, <2>3, StoreKeeps
<1>4. CASE UNCHANGED <<registers, deltas>>
  BY <1>4 DEF StoreInv
<1>5. [Next]_vars => \/ UNCHANGED <<registers, deltas>>
                     \/ \E t \in Threads, a \in Addr, p \in Payloads : Write(t, a, p)
                     \/ \E t \in Threads, a \in Addr, d \in Deltas : InjectAdaptRaw(t, a, d)
                     \/ \E t \in Threads : AdaptWrite(t)
  BY DEF Next, vars, InjectAdapt, ReadRegister, UpdateCompound, AttachModel, AttachDeltaModel,
         BuildCompound, AttachInsert, ReadModels, ReadDelta, ReadReturn
<1>6. QED  BY <1>1, <1>2, <1>3, <1>4, <1>5

\* Every model that is attached covers the same addresses.
LEMMA ModelsStep == TypeInv /\ [Next]_vars => ModelsInv'
<1> SUFFICES ASSUME TypeInv, [Next]_vars PROVE ModelsInv'
  OBVIOUS
<1>1. ASSUME NEW t \in Threads, NEW n \in Names, NEW is_delta \in BOOLEAN,
             NEW b \in Names \cup {NoName}, AttachModel(t, n, is_delta, b)
      PROVE  ModelsInv'
  BY <1>1 DEF AttachModel, TypeInv, ModelsInv, ModelAttachment
<1>2. ASSUME NEW t \in Threads, AttachInsert(t) PROVE ModelsInv'
  <2>1. call[t] \in AttachCall
    BY <1>2, CallKinds DEF AttachInsert, TypeInv
  <2>2. QED  BY <1>2, <2>1 DEF AttachInsert, TypeInv, ModelsInv, AttachCall
<1>3. CASE UNCHANGED models
  BY <1>3 DEF TypeInv, ModelsInv
<1>4. \/ UNCHANGED models
      \/ \E t \in Threads, n \in Names, is_delta \in BOOLEAN, b \in Names \cup {NoName} :
           AttachModel(t, n, is_delta, b)
      \/ \E t \in Threads : AttachInsert(t)
  BY DEF Next, vars, Write, InjectAdaptRaw, InjectAdapt, AdaptWrite, ReadRegister, UpdateCompound,
         AttachDeltaModel, BuildCompound, ReadModels, ReadDelta, ReadReturn
<1>5. QED  BY <1>1, <1>2, <1>3, <1>4

\* Calls carry what their next steps need.
LEMMA CallsStep == TypeInv /\ [Next]_vars => CallsInv' /\ calls' \in 0 .. MaxCalls
<1> SUFFICES ASSUME TypeInv, [Next]_vars PROVE CallsInv' /\ calls' \in 0 .. MaxCalls
  OBVIOUS
<1>0. /\ CallsInv /\ calls \in 0 .. MaxCalls /\ StoreInv /\ ModelsInv
      /\ StoreInv' /\ DOMAIN registers \subseteq DOMAIN registers'
  BY StoreStep DEF TypeInv
<1>1. ASSUME NEW t \in Threads, Begin(t, NoCall) PROVE CallsInv' /\ calls' \in 0 .. MaxCalls
  <2>1. CallsInv'
    BY <1>0, <1>1, BecomeKeeps DEF Begin
  <2>2. QED  BY <1>0, <1>1, <2>1, ModelsConstants DEF Begin
<1>2. ASSUME NEW t \in Threads, NEW a \in Addr, NEW d \in Deltas, InjectAdapt(t, a, d)
      PROVE  CallsInv' /\ calls' \in 0 .. MaxCalls
  <2> DEFINE r == UpdateWithDelta(registers[a], d)
             n == deltas[a] + 1
             c == [pc |-> "adapt", register |-> r, count |-> n]
  <2>1. a \in DOMAIN registers /\ d \in Lane /\ Begin(t, c)
    BY <1>2, ModelsConstants DEF InjectAdapt
  <2>2. Belongs(r, n) /\ n \in Nat /\ r \in Register
    <3>1. Belongs(registers[a], deltas[a]) /\ deltas[a] \in Nat
      BY <1>0, <2>1 DEF StoreInv
    <3>2. Belongs(r, n)
      BY <2>1, <3>1, UpdateBelongs
    <3>3. QED  BY <3>1, <3>2 DEF Belongs
  <2> HIDE DEF r, n
  <2>3. c \in AdaptCall /\ c.pc = "adapt" /\ c.register = r /\ c.count = n
    BY <2>2 DEF AdaptCall
  <2> HIDE DEF c
  <2>4. CallsInv'
    BY <1>0, <2>1, <2>2, <2>3, BecomeKeeps DEF Begin
  <2>5. QED  BY <1>0, <2>1, <2>4, ModelsConstants DEF Begin
<1>3. ASSUME NEW t \in Threads, NEW n \in Names, NEW b \in Names, AttachDeltaModel(t, n, b)
      PROVE  CallsInv' /\ calls' \in 0 .. MaxCalls
  <2> DEFINE m == [models[b] EXCEPT !.is_delta = TRUE, !.base_model_name = b]
             c == [pc |-> "attach", name |-> n, model |-> m]
  <2>1. b \in DOMAIN models /\ Begin(t, c)
    BY <1>3 DEF AttachDeltaModel
  <2>2. m \in ModelAttachment
    BY <1>0, <2>1 DEF ModelsInv, ModelAttachment
  <2> HIDE DEF m
  <2>3. c \in AttachCall /\ c.pc = "attach"
    BY <2>2 DEF AttachCall
  <2> HIDE DEF c
  <2>4. CallsInv'
    BY <1>0, <2>1, <2>3, BecomeKeeps DEF Begin
  <2>5. QED  BY <1>0, <2>1, <2>4, ModelsConstants DEF Begin
<1>4. ASSUME NEW t \in Threads, NEW a \in Addr, ReadRegister(t, a)
      PROVE  CallsInv' /\ calls' \in 0 .. MaxCalls
  <2> DEFINE p == registers[a].payload
             c == [pc |-> "models", address |-> a, payload |-> p]
  <2>1. a \in DOMAIN registers /\ Begin(t, c)
    BY <1>4 DEF ReadRegister
  <2>2. p \in Lane
    BY <1>0, <2>1 DEF StoreInv, Belongs, Register
  <2> HIDE DEF p
  <2>3. c \in ReadCall /\ c.pc = "models" /\ c.address = a
    BY <2>2 DEF ReadCall
  <2> HIDE DEF c
  <2>4. CallsInv'
    BY <1>0, <2>1, <2>3, BecomeKeeps DEF Begin
  <2>5. QED  BY <1>0, <2>1, <2>4, ModelsConstants DEF Begin
<1>5. ASSUME NEW t \in Threads, AdaptWrite(t) \/ AttachInsert(t) \/ ReadReturn(t)
      PROVE  CallsInv' /\ calls' \in 0 .. MaxCalls
  <2>1. call' = [call EXCEPT ![t] = NoCall] /\ UNCHANGED calls
    BY <1>5 DEF AdaptWrite, AttachInsert, ReadReturn, Become
  <2>2. QED  BY <1>0, <2>1, BecomeKeeps
<1>6. ASSUME NEW t \in Threads, ReadModels(t) PROVE CallsInv' /\ calls' \in 0 .. MaxCalls
  <2>1. call[t] \in ReadCall /\ call[t].address \in DOMAIN registers
    BY <1>0, <1>6, CallKinds DEF ReadModels, CallsInv
  <2>2. \E pc \in {"delta", "return"} : Become(t, [call[t] EXCEPT !.pc = pc])
    BY <1>6 DEF ReadModels
  <2>3. PICK pc \in {"delta", "return"} : call' = [call EXCEPT ![t] = [call[t] EXCEPT !.pc = pc]]
    BY <2>2 DEF Become
  <2> DEFINE c == [call[t] EXCEPT !.pc = pc]
  <2>4. c \in ReadCall /\ c.pc = pc /\ c.address = call[t].address
    BY <2>1 DEF ReadCall
  <2> HIDE DEF c
  <2>5. CallsInv'
    BY <1>0, <2>1, <2>3, <2>4, BecomeKeeps DEF c
  <2>6. QED  BY <1>0, <1>6, <2>5 DEF ReadModels
<1>7. ASSUME NEW t \in Threads, ReadDelta(t) PROVE CallsInv' /\ calls' \in 0 .. MaxCalls
  <2> DEFINE d == DeltaAddress(call[t].address)
             p == IF d \in DOMAIN registers THEN Xor(call[t].payload, registers[d].payload)
                                            ELSE call[t].payload
             c == [call[t] EXCEPT !.pc = "return", !.payload = p]
  <2>1. call[t] \in ReadCall /\ call[t].address \in DOMAIN registers
    BY <1>0, <1>7, CallKinds DEF ReadDelta, CallsInv
  <2>2. p \in Lane
    <3>1. d \in DOMAIN registers => registers[d].payload \in Lane
      BY <1>0 DEF StoreInv, Belongs, Register
    <3>2. call[t].payload \in Lane
      BY <2>1 DEF ReadCall
    <3> HIDE DEF d
    <3>3. QED  BY <3>1, <3>2, XorType
  <2>3. call' = [call EXCEPT ![t] = c] /\ UNCHANGED calls
    BY <1>7 DEF ReadDelta, Become
  <2> HIDE DEF p
  <2>4. c \in ReadCall /\ c.pc = "return" /\ c.address = call[t].address
    BY <2>1, <2>2 DEF ReadCall
  <2> HIDE DEF c
  <2>5. QED  BY <1>0, <2>1, <2>3, <2>4, BecomeKeeps
<1>8. CASE UNCHANGED vars
  BY <1>0, <1>8 DEF vars, CallsInv, InCall
<1>9. \/ UNCHANGED vars
      \/ \E t \in Threads : Begin(t, NoCall)
      \/ \E t \in Threads, a \in Addr, d \in Deltas : InjectAdapt(t, a, d)
      \/ \E t \in Threads, n \in Names, b \in Names : AttachDeltaModel(t, n, b)
      \/ \E t \in Threads, a \in Addr : ReadRegister(t, a)
      \/ \E t \in Threads : \/ AdaptWrite(t) \/ AttachInsert(t) \/ ReadReturn(t)
                            \/ ReadModels(t) \/ ReadDelta(t)
  BY DEF Next, Write, InjectAdaptRaw, UpdateCompound, AttachModel, BuildCompound
<1>10. QED  BY <1>1, <1>2, <1>3, <1>4, <1>5, <1>6, <1>7, <1>8, <1>9

\* A compound keeps its method and names addresses, whatever its bases are replaced by.
LEMMA CompoundStep == TypeInv /\ [Next]_vars => CompoundInv'
<1> SUFFICES ASSUME TypeInv, [Next]_vars PROVE CompoundInv'
  OBVIOUS
<1>1. ASSUME NEW t \in Threads, NEW c \in Compounds, BuildCompound(t, c) PROVE CompoundInv'
  <2> DEFINE bases == [i \in DOMAIN c[2] |-> registers[c[2][i]]]
  <2>1. c[1] \in CombiningMethod /\ c[2] \in Seq(Addr) /\ ToSet(c[2]) \subseteq DOMAIN registers
    BY <1>1, ModelsConstants DEF BuildCompound
  <2>2. \A i \in DOMAIN c[2] : registers[c[2][i]].address = c[2][i]
    BY <2>1 DEF TypeInv, StoreInv, ToSet
  <2>3. [i \in DOMAIN bases |-> bases[i].address] = c[2]
    <3>1. c[2] = [i \in DOMAIN c[2] |-> c[2][i]]
      BY <2>1
    <3>2. DOMAIN bases = DOMAIN c[2] /\ \A i \in DOMAIN c[2] : bases[i].address = c[2][i]
      BY <2>2
    <3> HIDE DEF bases
    <3>3. QED  BY <3>1, <3>2
  <2>4. \/ compound' = NewCompound(c[1], bases)
        \/ compound' = FromAddresses(c[1], c[2])
    BY <1>1 DEF BuildCompound
  <2> HIDE DEF bases
  <2>5. CASE compound' = NewCompound(c[1], bases)
    <3> DEFINE p == CompoundPayload(c[1], bases)
               l == CompoundLineage(c[1], bases)
    <3>1. compound' = [combining |-> c[1], base_addresses |-> c[2], payload |-> p, xor_lineage |-> l]
      BY <2>3, <2>5 DEF NewCompound
    <3> HIDE DEF p, l
    <3>2. QED  BY <2>1, <3>1 DEF CompoundInv
  <2>6. CASE compound' = FromAddresses(c[1], c[2])
    BY <2>1, <2>6 DEF FromAddresses, CompoundInv
  <2>7. QED  BY <2>4, <2>5, <2>6
<1>2. ASSUME NEW t \in Threads, NEW i \in 1 .. 2, NEW a \in Addr, UpdateCompound(t, i, a)
      PROVE  CompoundInv'
  <2> DEFINE c == compound
             addresses == [c.base_addresses EXCEPT ![i] = a]
  <2>1. /\ c # NoCompound /\ i \in DOMAIN c.base_addresses /\ registers[a].address = a
        /\ compound' = UpdateBase(c, i, registers[a])
    BY <1>2 DEF UpdateCompound, TypeInv, StoreInv
  <2>2. /\ c = [combining |-> c.combining, base_addresses |-> c.base_addresses,
                payload |-> c.payload, xor_lineage |-> c.xor_lineage]
        /\ c.combining \in CombiningMethod /\ c.base_addresses \in Seq(Addr)
    BY <2>1 DEF TypeInv, CompoundInv
  <2>3. addresses \in Seq(Addr)
    BY <2>1, <2>2
  <2>4. \E p, l : compound' = [combining |-> c.combining, base_addresses |-> addresses,
                                payload |-> p, xor_lineage |-> l]
    <3> DEFINE p == Xor(c.payload, registers[a].payload)
               l == Combine(c.xor_lineage, registers[a].xor_lineage)
    <3>1. compound' = IF c.combining = "XorChain"
            THEN [c EXCEPT !.base_addresses = addresses, !.payload = p, !.xor_lineage = l]
            ELSE [c EXCEPT !.base_addresses = addresses]
      BY <2>1, <2>2 DEF UpdateBase
    <3> HIDE DEF p, l, addresses, c
    <3>2. QED  BY <2>2, <3>1
  <2> HIDE DEF addresses
  <2>5. QED  BY <2>2, <2>3, <2>4 DEF CompoundInv
<1>3. CASE UNCHANGED compound
  BY <1>3 DEF TypeInv, CompoundInv
<1>4. \/ UNCHANGED compound
      \/ \E t \in Threads, c \in Compounds : BuildCompound(t, c)
      \/ \E t \in Threads, i \in 1 .. 2, a \in Addr : UpdateCompound(t, i, a)
  BY DEF Next, vars, Write, InjectAdaptRaw, InjectAdapt, AdaptWrite, ReadRegister, AttachModel,
         AttachInsert, AttachDeltaModel, ReadModels, ReadDelta, ReadReturn
<1>5. QED  BY <1>1, <1>2, <1>3, <1>4

\* What a step does to the history of the reads in progress.
LEMMA HistoryStep == TypeInv /\ [Next]_vars => HistoryInv'
<1> SUFFICES ASSUME TypeInv, [Next]_vars PROVE HistoryInv'
  OBVIOUS
<1>1. CASE Observe
  <2>1. seen' = [t \in Threads |-> seen'[t]]
    BY <1>1 DEF Observe
  <2>2. changed' \in [Threads -> SUBSET {"base", "delta", "models"}]
    BY <1>1 DEF Observe, TypeInv, HistoryInv
  <2>3. QED  BY <2>1, <2>2 DEF HistoryInv
<1>2. ASSUME NEW t \in Threads, (\E a \in Addr : ReadRegister(t, a)) \/ ReadReturn(t)
      PROVE  HistoryInv'
  <2>1. PICK x : seen' = [seen EXCEPT ![t] = x] /\ changed' = [changed EXCEPT ![t] = {}]
    BY <1>2 DEF ReadRegister, ReadReturn
  <2>2. QED  BY <2>1 DEF TypeInv, HistoryInv
<1>3. CASE UNCHANGED <<seen, changed>>
  BY <1>3 DEF TypeInv, HistoryInv
<1>4. \/ Observe \/ UNCHANGED <<seen, changed>>
      \/ \E t \in Threads : (\E a \in Addr : ReadRegister(t, a)) \/ ReadReturn(t)
  BY DEF Next, vars, Write, InjectAdaptRaw, InjectAdapt, AdaptWrite, AttachModel, AttachInsert,
         AttachDeltaModel, ReadModels, ReadDelta, UpdateCompound, BuildCompound
<1>5. QED  BY <1>1, <1>2, <1>3, <1>4

\* The invariant of every reachable state.
LEMMA TypeInvariant == Spec => []TypeInv
<1>1. TypeInv /\ [Next]_vars => TypeInv'
  BY StoreStep, ModelsStep, CallsStep, CompoundStep, HistoryStep DEF TypeInv
<1>2. QED  BY <1>1, TypeInit, PTL DEF Spec

\* Every variable stays within its type.
THEOREM TypeCorrect == Spec => []TypeOK
<1>1. TypeInv => TypeOK
  <2> SUFFICES ASSUME TypeInv PROVE TypeOK
    OBVIOUS
  <2>1. compound # NoCompound => ToSet(compound.base_addresses) \subseteq Addr
    BY DEF TypeInv, CompoundInv, ToSet
  <2>2. QED  BY <2>1 DEF TypeOK, TypeInv, StoreInv, ModelsInv, CompoundInv, Belongs
<1>2. QED  BY <1>1, TypeInvariant, PTL

\* A stored register's payload is the XOR of the payloads its lineage holds, whatever deltas
\* two threads merge or lose (register.rs:41-46).
THEOREM LineageTellsPayload == Spec => []LineageDeterminesPayload
<1>1. TypeInv => LineageDeterminesPayload
  BY DEF TypeInv, StoreInv, Belongs, LineageDeterminesPayload
<1>2. QED  BY <1>1, TypeInvariant, PTL

\* lineage_consistent (register.rs:151) accepts every register that took no delta since it was
\* stored, and none that took an odd number.
THEOREM DeltasReadAsCorrupt == Spec => []OnlyDeltasReadAsCorrupt
<1>1. TypeInv => OnlyDeltasReadAsCorrupt
  <2> SUFFICES ASSUME TypeInv, NEW a \in DOMAIN registers
               PROVE  /\ deltas[a] = 0 => LineageConsistent(registers[a])
                      /\ deltas[a] % 2 = 1 => ~LineageConsistent(registers[a])
    BY DEF OnlyDeltasReadAsCorrupt
  <2>1. Belongs(registers[a], deltas[a])
    BY DEF TypeInv, StoreInv
  <2>2. deltas[a] % 2 = 1 => ~registers[a].xor_lineage.constant
    BY <2>1 DEF Belongs
  <2>3. QED  BY <2>1, <2>2 DEF Belongs, LineageConsistent, InitialLineage
<1>2. QED  BY <1>1, TypeInvariant, PTL

-----------------------------------------------------------------------------
(* Reads are torn only by two changes. *)

\* What a read gives for a base b and a delta d, when a delta model covers the address or not.
Effective(b, d, covered) == IF covered /\ d # NoRegister THEN Xor(b, d) ELSE b
Covered(ms, a) == \E m \in DeltaModels(ms) : InRange(a, m)

\* What is kept for a read in progress: the register resolves to something it has seen; what
\* has not changed is as it was when the read began; and once a delta model has been found,
\* what the delta will make of the payload has been seen unless base or delta changed since.
ReadInv(t) ==
  LET a == call[t].address
      p == call[t].payload
      d == At(registers, DeltaAddress(a))
  IN /\ Reading(t) =>
          /\ Effective(At(registers, a), d, Covered(models, a)) \in seen[t]
          /\ "base" \notin changed[t] => At(registers, a) = p
          /\ changed[t] \cap {"delta", "models"} = {} =>
               Effective(p, d, Covered(models, a)) \in seen[t]
     /\ InCall(t, "delta") =>
          /\ "models" \notin changed[t] => Covered(models, a)
          /\ changed[t] \cap {"base", "delta"} = {} => Effective(p, d, TRUE) \in seen[t]
     /\ InCall(t, "return") /\ Cardinality(changed[t]) < 2 => p \in seen[t]

\* Resolution depends on the base's and the delta's payload and on the delta models alone.
LEMMA ResolveIsEffective ==
  ASSUME NEW rs, NEW ms, NEW a \in DOMAIN rs, \A b \in DOMAIN rs : rs[b].payload \in Lane
  PROVE  Resolve(rs, ms, a) = Effective(At(rs, a), At(rs, DeltaAddress(a)), Covered(ms, a))
BY ModelsConstants DEF Resolve, Effective, At, Covered

\* Payloads in the store are lanes.
LEMMA PayloadsAreLanes == StoreInv => \A b \in DOMAIN registers : registers[b].payload \in Lane
BY DEF StoreInv, Belongs, Register

\* A set of less than two of the three names has at most one of them.
LEMMA AtMostOne ==
  ASSUME NEW S \in SUBSET {"base", "delta", "models"}, Cardinality(S) < 2
  PROVE  S = {} \/ \E x \in {"base", "delta", "models"} : S = {x}
<1>1. IsFiniteSet({"base", "delta", "models"})
  <2>1. {"base", "delta", "models"} = ({"base"} \cup {"delta"}) \cup {"models"}
    OBVIOUS
  <2>2. IsFiniteSet(({"base"} \cup {"delta"}) \cup {"models"})
    BY FS_Singleton, FS_AddElement
  <2>3. QED  BY <2>1, <2>2, Zenon
<1>2. IsFiniteSet(S) /\ Cardinality(S) \in Nat
  BY <1>1, FS_Subset, FS_CardinalityType
<1>3. CASE Cardinality(S) = 0
  BY <1>2, <1>3, FS_EmptySet
<1>4. CASE Cardinality(S) = 1
  BY <1>2, <1>4, FS_Singleton
<1>5. Cardinality(S) = 0 \/ Cardinality(S) = 1
  BY <1>2
<1>6. QED  BY <1>3, <1>4, <1>5

\* What other calls do to a read: they show it the new payload and name what they changed.
LEMMA ReadObserves ==
  ASSUME TypeInv, StoreInv', DOMAIN registers \subseteq DOMAIN registers',
         NEW t \in Threads, ReadInv(t), call'[t] = call[t],
         \/ Observe
         \/ UNCHANGED <<registers, models>> /\ seen'[t] = seen[t] /\ changed'[t] = changed[t]
  PROVE  ReadInv(t)'
<1>1. CASE UNCHANGED <<registers, models>> /\ seen'[t] = seen[t] /\ changed'[t] = changed[t]
  BY <1>1 DEF ReadInv, Reading, InCall
<1>2. CASE Observe /\ ~Reading(t)
  <2>1. seen'[t] = seen[t] /\ changed'[t] = changed[t]
    BY <1>2 DEF Observe
  <2>2. ~InCall(t, "delta")
    BY <1>2 DEF Reading, InCall
  <2>3. QED  BY <1>2, <2>1, <2>2 DEF ReadInv, Reading, InCall
<1>3. CASE Observe /\ Reading(t)
  <2> DEFINE a == call[t].address
             p == call[t].payload
             d == At(registers, DeltaAddress(a))
             e == At(registers', DeltaAddress(a))
  <2>1. a \in DOMAIN registers /\ a \in DOMAIN registers'
    BY <1>3 DEF Reading, InCall, TypeInv, CallsInv
  <2>2. seen'[t] = seen[t] \cup {Effective(At(registers', a), e, Covered(models', a))}
    <3>1. seen'[t] = seen[t] \cup {Resolve(registers', models', a)}
      BY <1>3 DEF Observe
    <3>2. \A b \in DOMAIN registers' : registers'[b].payload \in Lane
      BY DEF StoreInv, Belongs, Register
    <3> HIDE DEF a
    <3>3. Resolve(registers', models', a) = Effective(At(registers', a), e, Covered(models', a))
      BY <2>1, <3>2, ResolveIsEffective
    <3>4. QED  BY <3>1, <3>3 DEF a
  <2>3. changed'[t] = changed[t]
          \cup {x \in {"base"} : At(registers', a) # At(registers, a)}
          \cup {x \in {"delta"} : e # d}
          \cup {x \in {"models"} : DeltaModels(models') # DeltaModels(models)}
    BY <1>3 DEF Observe
  <2>4. /\ "base" \notin changed'[t] =>
             "base" \notin changed[t] /\ At(registers', a) = At(registers, a)
        /\ "delta" \notin changed'[t] => "delta" \notin changed[t] /\ e = d
        /\ "models" \notin changed'[t] =>
             "models" \notin changed[t] /\ (Covered(models', a) <=> Covered(models, a))
    BY <2>3 DEF Covered
  <2>5. /\ call'[t].address = a /\ call'[t].payload = p
        /\ Reading(t)' /\ (InCall(t, "delta")' => InCall(t, "delta")) /\ ~InCall(t, "return")'
    BY <1>3 DEF Reading, InCall
  <2>6. /\ Effective(At(registers, a), d, Covered(models, a)) \in seen[t]
        /\ "base" \notin changed[t] => At(registers, a) = p
        /\ changed[t] \cap {"delta", "models"} = {} =>
             Effective(p, d, Covered(models, a)) \in seen[t]
        /\ InCall(t, "delta") =>
             /\ "models" \notin changed[t] => Covered(models, a)
             /\ changed[t] \cap {"base", "delta"} = {} => Effective(p, d, TRUE) \in seen[t]
    BY <1>3 DEF ReadInv
  <2>7. /\ "base" \notin changed'[t] => At(registers', a) = p
        /\ changed'[t] \cap {"delta", "models"} = {} =>
             Effective(p, e, Covered(models', a)) \in seen'[t]
    <3>1. changed'[t] \cap {"delta", "models"} = {} =>
            e = d /\ changed[t] \cap {"delta", "models"} = {}
                  /\ (Covered(models', a) <=> Covered(models, a))
      BY <2>4
    <3> HIDE DEF a, p, d, e
    <3>2. QED  BY <2>2, <2>4, <2>6, <3>1 DEF Effective
  <2>8. InCall(t, "delta")' =>
          /\ "models" \notin changed'[t] => Covered(models', a)
          /\ changed'[t] \cap {"base", "delta"} = {} => Effective(p, e, TRUE) \in seen'[t]
    <3>1. changed'[t] \cap {"base", "delta"} = {} => e = d /\ changed[t] \cap {"base", "delta"} = {}
      BY <2>4
    <3> HIDE DEF a, p, d, e
    <3>2. QED  BY <2>2, <2>4, <2>5, <2>6, <3>1
  <2>9. Effective(At(registers', a), e, Covered(models', a)) \in seen'[t]
    BY <2>2
  <2> DEFINE E1 == Effective(At(registers', a), e, Covered(models', a))
  <2>10. QED  BY <2>5, <2>7, <2>8, <2>9 DEF ReadInv
<1>4. QED  BY <1>1, <1>2, <1>3

\* Every delta model covers the same addresses, so the one that is found covers an address
\* exactly if some delta model does.
LEMMA FoundModelCovers ==
  ASSUME ModelsInv, NEW m \in DeltaModels(models), NEW a
  PROVE  InRange(a, m) <=> Covered(models, a)
BY DEF ModelsInv, ModelAttachment, DeltaModels, Covered, InRange

\* A read that the models' lock let go with or without a delta to look up.
LEMMA ModelsKeep ==
  ASSUME TypeInv, NEW t \in Threads, ReadInv(t), ReadModels(t)
  PROVE  ReadInv(t)'
<1> DEFINE a == call[t].address
           p == call[t].payload
           b == At(registers, a)
           d == At(registers, DeltaAddress(a))
           covered == Covered(models, a)
<1>1. /\ UNCHANGED <<registers, models, seen, changed>>
      /\ InCall(t, "models") /\ Reading(t)
  BY DEF ReadModels, InCall, Reading
<1>2. \/ covered /\ call' = [call EXCEPT ![t] = [call[t] EXCEPT !.pc = "delta"]]
      \/ ~covered /\ call' = [call EXCEPT ![t] = [call[t] EXCEPT !.pc = "return"]]
  <2>1. CASE DeltaModels(models) = {}
    BY <2>1 DEF ReadModels, Become, Covered
  <2>2. CASE DeltaModels(models) # {}
    <3>1. PICK m \in DeltaModels(models) :
            call' = [call EXCEPT ![t] = [call[t] EXCEPT !.pc = IF InRange(a, m) THEN "delta" ELSE "return"]]
      BY <2>2 DEF ReadModels, Become
    <3>2. InRange(a, m) <=> covered
      BY FoundModelCovers DEF TypeInv
    <3>3. QED  BY <3>1, <3>2
  <2>3. QED  BY <2>1, <2>2
<1>3. call[t] \in ReadCall /\ call \in [Threads -> {NoCall} \cup AdaptCall \cup AttachCall \cup ReadCall]
  BY <1>1, CallKinds DEF TypeInv, CallsInv
<1>4. /\ Effective(b, d, covered) \in seen[t]
      /\ "base" \notin changed[t] => b = p
      /\ changed[t] \cap {"delta", "models"} = {} => Effective(p, d, covered) \in seen[t]
  BY <1>1 DEF ReadInv
<1>5. CASE covered /\ call' = [call EXCEPT ![t] = [call[t] EXCEPT !.pc = "delta"]]
  <2>1. call'[t].pc = "delta" /\ call'[t].address = a /\ call'[t].payload = p
    BY <1>3, <1>5 DEF ReadCall
  <2>2. changed[t] \cap {"base", "delta"} = {} => Effective(p, d, TRUE) \in seen[t]
    <3> HIDE DEF a, b, p, d
    <3> QED  BY <1>4, <1>5 DEF Effective
  <2>3. ~InCall(t, "return")'
    BY <2>1 DEF InCall
  <2>4. QED  BY <1>1, <1>4, <1>5, <2>1, <2>2, <2>3 DEF ReadInv
<1>6. CASE ~covered /\ call' = [call EXCEPT ![t] = [call[t] EXCEPT !.pc = "return"]]
  <2>1. call'[t].pc = "return" /\ call'[t].payload = p
    BY <1>3, <1>6 DEF ReadCall
  <2>2. ~Reading(t)' /\ ~InCall(t, "delta")'
    BY <2>1 DEF InCall, Reading
  <2>3. Cardinality(changed[t]) < 2 => p \in seen[t]
    <3>1. ASSUME Cardinality(changed[t]) < 2
          PROVE  "base" \notin changed[t] \/ changed[t] \cap {"delta", "models"} = {}
      <4>1. changed[t] \in SUBSET {"base", "delta", "models"}
        BY DEF TypeInv, HistoryInv
      <4>2. QED  BY <3>1, <4>1, AtMostOne
    <3>2. Effective(b, d, covered) = b /\ Effective(p, d, covered) = p
      BY <1>6 DEF Effective
    <3> HIDE DEF a, b, p, d, covered
    <3>3. QED  BY <1>4, <3>1, <3>2
  <2>4. QED  BY <1>1, <2>1, <2>2, <2>3 DEF ReadInv
<1>7. QED  BY <1>2, <1>5, <1>6

\* A read that has looked its delta up.
LEMMA DeltaKeeps ==
  ASSUME TypeInv, NEW t \in Threads, ReadInv(t), ReadDelta(t)
  PROVE  ReadInv(t)'
<1> DEFINE a == call[t].address
           p == call[t].payload
           b == At(registers, a)
           d == At(registers, DeltaAddress(a))
           covered == Covered(models, a)
           r == IF DeltaAddress(a) \in DOMAIN registers
                  THEN Xor(p, registers[DeltaAddress(a)].payload) ELSE p
<1>1. /\ UNCHANGED <<registers, models, seen, changed>>
      /\ InCall(t, "delta") /\ Reading(t)
      /\ call' = [call EXCEPT ![t] = [call[t] EXCEPT !.pc = "return", !.payload = r]]
  BY DEF ReadDelta, InCall, Reading, Become
<1>2. call[t] \in ReadCall /\ call \in [Threads -> {NoCall} \cup AdaptCall \cup AttachCall \cup ReadCall]
  BY <1>1, CallKinds DEF TypeInv, CallsInv
<1>3. call'[t].pc = "return" /\ call'[t].payload = r
  <2> HIDE DEF r
  <2> QED  BY <1>1, <1>2 DEF ReadCall
<1>4. r = Effective(p, d, TRUE)
  <2>1. \A x \in DOMAIN registers : registers[x].payload # NoRegister
    BY PayloadsAreLanes, ModelsConstants DEF TypeInv
  <2>2. QED  BY <2>1 DEF Effective, At
<1>5. /\ Effective(b, d, covered) \in seen[t]
      /\ "base" \notin changed[t] => b = p
      /\ changed[t] \cap {"delta", "models"} = {} => Effective(p, d, covered) \in seen[t]
      /\ "models" \notin changed[t] => covered
      /\ changed[t] \cap {"base", "delta"} = {} => Effective(p, d, TRUE) \in seen[t]
  BY <1>1 DEF ReadInv
<1>6. ASSUME Cardinality(changed[t]) < 2 PROVE r \in seen[t]
  <2>1. \/ changed[t] \cap {"base", "delta"} = {}
        \/ "models" \notin changed[t] /\ changed[t] \cap {"delta", "models"} = {}
        \/ "models" \notin changed[t] /\ "base" \notin changed[t]
    <3>1. changed[t] \in SUBSET {"base", "delta", "models"}
      BY DEF TypeInv, HistoryInv
    <3>2. QED  BY <1>6, <3>1, AtMostOne
  <2> HIDE DEF a, b, p, d, r, covered
  <2>2. QED  BY <1>4, <1>5, <2>1 DEF Effective
<1>7. ~Reading(t)' /\ ~InCall(t, "delta")'
  BY <1>3 DEF InCall, Reading
<1>8. QED  BY <1>1, <1>3, <1>6, <1>7 DEF ReadInv

\* A read that has just begun has seen what its register resolves to.
LEMMA BeginKeeps ==
  ASSUME TypeInv, NEW t \in Threads, NEW a \in Addr, ReadRegister(t, a)
  PROVE  ReadInv(t)'
<1> DEFINE p == registers[a].payload
           e == Effective(p, At(registers, DeltaAddress(a)), Covered(models, a))
           c == [pc |-> "models", address |-> a, payload |-> p]
<1>1. a \in DOMAIN registers /\ UNCHANGED <<registers, models>>
  BY DEF ReadRegister
<1>2. At(registers, a) = p /\ Resolve(registers, models, a) = e
  BY <1>1, ResolveIsEffective, PayloadsAreLanes DEF TypeInv, At
<1>3. seen'[t] = {e} /\ changed'[t] = {}
  <2>1. seen' = [seen EXCEPT ![t] = {e}] /\ changed' = [changed EXCEPT ![t] = {}]
    BY <1>2 DEF ReadRegister
  <2> HIDE DEF e
  <2>2. QED  BY <2>1 DEF TypeInv, HistoryInv
<1>4. call'[t] = c
  <2>1. call' = [call EXCEPT ![t] = c]
    BY DEF ReadRegister, Begin
  <2> HIDE DEF c
  <2>2. QED  BY <2>1 DEF TypeInv, CallsInv
<1>5. call'[t].pc = "models" /\ call'[t].address = a /\ call'[t].payload = p
  BY <1>4
<1>6. ~InCall(t, "delta")' /\ ~InCall(t, "return")'
  BY <1>5 DEF InCall
<1>7. e \in seen'[t] /\ p = At(registers, a)
  BY <1>2, <1>3
<1> HIDE DEF p
<1>8. QED  BY <1>1, <1>5, <1>6, <1>7 DEF ReadInv

\* A step of another thread, or one after which the thread is not in a read.
LEMMA StepsOfReads ==
  ASSUME TypeInv, [Next]_vars, NEW t \in Threads
  PROVE  \/ \E a \in Addr : ReadRegister(t, a)
         \/ ReadModels(t) \/ ReadDelta(t)
         \/ \A pc \in {"models", "delta", "return"} : ~InCall(t, pc)'
         \/ /\ call'[t] = call[t]
            /\ \/ Observe
               \/ UNCHANGED <<registers, models>> /\ seen'[t] = seen[t] /\ changed'[t] = changed[t]
<1> DEFINE Out == \A pc \in {"models", "delta", "return"} : ~InCall(t, pc)'
           Idle == UNCHANGED <<registers, models>> /\ seen'[t] = seen[t] /\ changed'[t] = changed[t]
<1>0. /\ call \in [Threads -> {NoCall} \cup AdaptCall \cup AttachCall \cup ReadCall]
      /\ seen = [u \in Threads |-> seen[u]]
      /\ changed \in [Threads -> SUBSET {"base", "delta", "models"}]
  BY DEF TypeInv, CallsInv, HistoryInv
<1>1. ASSUME NEW u \in Threads, Begin(u, NoCall) PROVE Out \/ call'[t] = call[t]
  BY <1>0, <1>1 DEF Begin, InCall
<1>2. ASSUME NEW u \in Threads, NEW a \in Addr, NEW d \in Deltas, InjectAdapt(u, a, d)
      PROVE  Out \/ (call'[t] = call[t] /\ Idle)
  <2>1. PICK c : call' = [call EXCEPT ![u] = c] /\ c.pc = "adapt"
    <3> DEFINE r == UpdateWithDelta(registers[a], d)
               n == deltas[a] + 1
    <3>1. call' = [call EXCEPT ![u] = [pc |-> "adapt", register |-> r, count |-> n]]
      BY <1>2 DEF InjectAdapt, Begin
    <3> HIDE DEF r, n
    <3>2. [pc |-> "adapt", register |-> r, count |-> n].pc = "adapt"
      OBVIOUS
    <3>3. QED  BY <3>1, <3>2, Zenon
  <2>2. CASE u = t
    BY <1>0, <2>1, <2>2 DEF InCall
  <2>3. CASE u # t
    BY <1>0, <1>2, <2>1, <2>3 DEF InjectAdapt
  <2>4. QED  BY <2>2, <2>3
<1>3. ASSUME NEW u \in Threads, NEW n \in Names, NEW b \in Names, AttachDeltaModel(u, n, b)
      PROVE  Out \/ (call'[t] = call[t] /\ Idle)
  <2>1. PICK c : call' = [call EXCEPT ![u] = c] /\ c.pc = "attach"
    <3> DEFINE m == [models[b] EXCEPT !.is_delta = TRUE, !.base_model_name = b]
    <3>1. call' = [call EXCEPT ![u] = [pc |-> "attach", name |-> n, model |-> m]]
      BY <1>3 DEF AttachDeltaModel, Begin
    <3> HIDE DEF m
    <3>2. [pc |-> "attach", name |-> n, model |-> m].pc = "attach"
      OBVIOUS
    <3>3. QED  BY <3>1, <3>2, Zenon
  <2>2. CASE u = t
    BY <1>0, <2>1, <2>2 DEF InCall
  <2>3. CASE u # t
    BY <1>0, <1>3, <2>1, <2>3 DEF AttachDeltaModel
  <2>4. QED  BY <2>2, <2>3
<1>4. ASSUME NEW u \in Threads, AdaptWrite(u) \/ AttachInsert(u)
      PROVE  Out \/ (call'[t] = call[t] /\ Observe)
  <2>1. call' = [call EXCEPT ![u] = NoCall] /\ Observe
    BY <1>4 DEF AdaptWrite, AttachInsert, Become
  <2>2. QED  BY <1>0, <2>1 DEF InCall
<1>5. ASSUME NEW u \in Threads, ReadReturn(u) PROVE Out \/ (call'[t] = call[t] /\ Idle)
  <2>1. /\ call' = [call EXCEPT ![u] = NoCall] /\ UNCHANGED <<registers, models>>
        /\ seen' = [seen EXCEPT ![u] = {}] /\ changed' = [changed EXCEPT ![u] = {}]
    BY <1>5 DEF ReadReturn, Become
  <2>2. QED  BY <1>0, <2>1 DEF InCall
<1>6. ASSUME NEW u \in Threads \ {t}, ReadModels(u) \/ ReadDelta(u)
      PROVE  call'[t] = call[t] /\ Idle
  <2>1. PICK c : call' = [call EXCEPT ![u] = c]
    BY <1>6 DEF ReadModels, ReadDelta, Become
  <2>2. UNCHANGED <<registers, models, seen, changed>>
    BY <1>6 DEF ReadModels, ReadDelta
  <2>3. QED  BY <1>0, <2>1, <2>2
<1>7. ASSUME NEW u \in Threads \ {t}, NEW a \in Addr, ReadRegister(u, a)
      PROVE  call'[t] = call[t] /\ Idle
  <2>1. PICK c, x : /\ call' = [call EXCEPT ![u] = c]
                    /\ seen' = [seen EXCEPT ![u] = x] /\ changed' = [changed EXCEPT ![u] = {}]
    BY <1>7 DEF ReadRegister, Begin
  <2>2. UNCHANGED <<registers, models>>
    BY <1>7 DEF ReadRegister
  <2>3. QED  BY <1>0, <2>1, <2>2
<1>8. ASSUME NEW u \in Threads, Begin(u, NoCall),
             Observe \/ UNCHANGED <<registers, models, seen, changed>>
      PROVE  Out \/ (call'[t] = call[t] /\ (Observe \/ Idle))
  BY <1>1, <1>8
<1>9. CASE UNCHANGED vars
  BY <1>9 DEF vars
<1>10. \/ UNCHANGED vars
       \/ \E u \in Threads : Begin(u, NoCall) /\ (Observe \/ UNCHANGED <<registers, models, seen, changed>>)
       \/ \E u \in Threads, a \in Addr, d \in Deltas : InjectAdapt(u, a, d)
       \/ \E u \in Threads, n \in Names, b \in Names : AttachDeltaModel(u, n, b)
       \/ \E u \in Threads, a \in Addr : ReadRegister(u, a)
       \/ \E u \in Threads : \/ AdaptWrite(u) \/ AttachInsert(u) \/ ReadReturn(u)
                             \/ ReadModels(u) \/ ReadDelta(u)
  BY DEF Next, Write, InjectAdaptRaw, UpdateCompound, AttachModel, BuildCompound
<1> HIDE DEF Out, Idle
<1>11. QED  BY <1>2, <1>3, <1>4, <1>5, <1>6, <1>7, <1>8, <1>9, <1>10 DEF Out, Idle

\* A read returns a payload its register resolved to since the read began, unless two of base,
\* delta and delta models changed meanwhile (fabric.rs:335-351).
THEOREM TornOnlyByTwo == Spec => []TornOnlyByTwoChanges
<1>1. Init => \A t \in Threads : ReadInv(t)
  BY DEF Init, ReadInv, Reading, InCall
<1>2. TypeInv /\ (\A t \in Threads : ReadInv(t)) /\ [Next]_vars => (\A t \in Threads : ReadInv(t))'
  <2> SUFFICES ASSUME TypeInv, \A t \in Threads : ReadInv(t), [Next]_vars, NEW t \in Threads
               PROVE  ReadInv(t)'
    OBVIOUS
  <2>1. StoreInv' /\ DOMAIN registers \subseteq DOMAIN registers'
    BY StoreStep
  <2>2. CASE \A pc \in {"models", "delta", "return"} : ~InCall(t, pc)'
    BY <2>2 DEF ReadInv, Reading, InCall
  <2>3. QED  BY <2>1, <2>2, StepsOfReads, BeginKeeps, ModelsKeep, DeltaKeeps, ReadObserves
<1>3. (\A t \in Threads : ReadInv(t)) => TornOnlyByTwoChanges
  BY DEF ReadInv, TornOnlyByTwoChanges
<1>4. QED  BY <1>1, <1>2, <1>3, TypeInvariant, PTL DEF Spec

-----------------------------------------------------------------------------
(* Compound registers. *)

\* The XOR of two sets of lanes, taken together, is the XOR of their XORs.
LEMMA XorOfXor ==
  ASSUME NEW P \in SUBSET Lane, NEW Q \in SUBSET Lane
  PROVE  XorOf(Xor(P, Q)) = Xor(XorOf(P), XorOf(Q))
<1> DEFINE With(R, b) == {p \in R : b \in p}
<1>1. ASSUME NEW b \in 0 .. Width - 1
      PROVE  Cardinality(With(Xor(P, Q), b)) % 2 = 1
               <=> ~ ((Cardinality(With(P, b)) % 2 = 1) <=> (Cardinality(With(Q, b)) % 2 = 1))
  <2> DEFINE A == With(P, b)
             B == With(Q, b)
             n == Cardinality(A)
             m == Cardinality(B)
             k == Cardinality(A \cap B)
             x == Cardinality(With(Xor(P, Q), b))
  <2>1. IsFiniteSet(A) /\ IsFiniteSet(B) /\ IsFiniteSet(A \cap B)
    BY LanesFinite, FS_Subset
  <2>2. With(Xor(P, Q), b) = (A \ B) \cup (B \ A)
    BY DEF Xor
  <2>3. B \cap A = A \cap B /\ (A \ B) \cap (B \ A) = {}
    OBVIOUS
  <2> HIDE DEF With, A, B
  <2>4. n \in Nat /\ m \in Nat /\ k \in Nat
    BY <2>1, FS_CardinalityType
  <2>5. /\ IsFiniteSet(A \ B) /\ Cardinality(A \ B) = n - k
        /\ IsFiniteSet(B \ A) /\ Cardinality(B \ A) = m - k
    <3>1. IsFiniteSet(A \ B) /\ Cardinality(A \ B) = Cardinality(A) - Cardinality(A \cap B)
      BY <2>1, FS_Difference, Zenon
    <3>2. IsFiniteSet(B \ A) /\ Cardinality(B \ A) = Cardinality(B) - Cardinality(B \cap A)
      BY <2>1, FS_Difference, Zenon
    <3>3. QED  BY <2>3, <3>1, <3>2, Zenon
  <2>6. x = Cardinality(A \ B) + Cardinality(B \ A) - 0
    BY <2>2, <2>3, <2>5, FS_Union, FS_EmptySet
  <2>7. x = (n - k) + (m - k)
    BY <2>4, <2>5, <2>6
  <2> HIDE DEF n, m, k, x
  <2>8. x % 2 = 1 <=> ~ ((n % 2 = 1) <=> (m % 2 = 1))
    BY <2>4, <2>7
  <2>9. QED  BY <2>8 DEF n, m, x, A, B
<1>2. ASSUME NEW b \in 0 .. Width - 1
      PROVE  b \in XorOf(Xor(P, Q)) <=> b \in Xor(XorOf(P), XorOf(Q))
  <2>1. /\ b \in XorOf(P) <=> Cardinality(With(P, b)) % 2 = 1
        /\ b \in XorOf(Q) <=> Cardinality(With(Q, b)) % 2 = 1
        /\ b \in XorOf(Xor(P, Q)) <=> Cardinality(With(Xor(P, Q), b)) % 2 = 1
    BY DEF XorOf
  <2>2. b \in Xor(XorOf(P), XorOf(Q)) <=> ~ (b \in XorOf(P) <=> b \in XorOf(Q))
    BY DEF Xor
  <2>3. QED  BY <1>1, <2>1, <2>2
<1>3. XorOf(Xor(P, Q)) \subseteq 0 .. Width - 1 /\ Xor(XorOf(P), XorOf(Q)) \subseteq 0 .. Width - 1
  BY DEF XorOf, Xor
<1>4. QED  BY <1>2, <1>3

\* The XOR of no lanes is the empty lane.
LEMMA XorOfNone == XorOf({}) = {}
<1>1. \A b : {p \in {} : b \in p} = {}
  OBVIOUS
<1>2. \A b : Cardinality({p \in {} : b \in p}) = 0
  BY <1>1, FS_EmptySet, Zenon
<1>3. QED  BY <1>2 DEF XorOf

\* A set of numbers that is not empty has a least one.
LEMMA LeastNumber ==
  ASSUME NEW S, S \subseteq Nat, S # {}
  PROVE  \E i \in S : \A j \in S : i <= j
<1>1. PICK i \in S : \A j \in S : <<j, i>> \notin OpToRel(<, Nat)
  BY WFMin, NatLessThanWellFounded, Zenon
<1>2. \A j \in S : j \in Nat /\ i \in Nat
  OBVIOUS
<1>3. \A j \in S : ~(j < i)
  BY <1>1, <1>2, Zenon DEF OpToRel
<1>4. QED  BY <1>2, <1>3

\* The two folds of an XOR chain over the bases in `s`: of payloads, and of lineages.
Fold(of, bases, folds, s) ==
  IF s = {} THEN IF of = "payload" THEN {} ELSE NoLineage
  ELSE LET x == CHOOSE x \in s : TRUE
       IN  IF of = "payload" THEN Xor(folds[s \ {x}], bases[x].payload)
                             ELSE Combine(folds[s \ {x}], bases[x].xor_lineage)

Folds(of, bases, D, folds) == folds = [s \in SUBSET D |-> Fold(of, bases, folds, s)]

\* The same, for the sets of at most n bases.
FoldsTo(of, bases, D, n, folds) ==
  \A s \in SUBSET D : Cardinality(s) <= n => folds[s] = Fold(of, bases, folds, s)

\* A subset without its chosen element is smaller by one.
LEMMA Smaller ==
  ASSUME NEW D, IsFiniteSet(D), NEW s \in SUBSET D, s # {}
  PROVE  LET x == CHOOSE x \in s : TRUE
         IN x \in s /\ s \ {x} \in SUBSET D
              /\ Cardinality(s) \in Nat \ {0} /\ Cardinality(s \ {x}) = Cardinality(s) - 1
<1> DEFINE x == CHOOSE x \in s : TRUE
<1>1. x \in s
  OBVIOUS
<1>2. IsFiniteSet(s) /\ Cardinality(s) \in Nat
  BY FS_Subset, FS_CardinalityType
<1> HIDE DEF x
<1>3. Cardinality(s \ {x}) = Cardinality(s) - 1
  BY <1>1, <1>2, FS_RemoveElement
<1>4. Cardinality(s) # 0
  BY <1>2, FS_EmptySet
<1>5. QED  BY <1>1, <1>2, <1>3, <1>4 DEF x

\* The folds of all sets of at most n bases exist.
LEMMA FoldsToExist ==
  ASSUME NEW of, NEW bases, NEW D, IsFiniteSet(D), NEW n \in Nat
  PROVE  \E folds : FoldsTo(of, bases, D, n, folds)
<1> DEFINE S == {m \in Nat : ~ \E folds : FoldsTo(of, bases, D, m, folds)}
<1> SUFFICES ASSUME S # {} PROVE FALSE
  OBVIOUS
<1>1. PICK m \in S : \A j \in S : m <= j
  <2> HIDE DEF S
  <2>1. S \subseteq Nat
    BY DEF S
  <2>2. QED  BY <2>1, LeastNumber
<1>2. \A s \in SUBSET D : Cardinality(s) \in Nat /\ (Cardinality(s) = 0 <=> s = {})
  BY FS_Subset, FS_CardinalityType, FS_EmptySet
<1>3. CASE m = 0
  <2> DEFINE g == [s \in SUBSET D |-> IF of = "payload" THEN {} ELSE NoLineage]
  <2>1. FoldsTo(of, bases, D, 0, g)
    BY <1>2 DEF FoldsTo, Fold
  <2>2. QED  BY <1>1, <1>3, <2>1
<1>4. CASE m # 0
  <2>1. m - 1 \in Nat /\ m \in Nat /\ ~(m <= m - 1)
    BY <1>4
  <2>2. PICK folds : FoldsTo(of, bases, D, m - 1, folds)
    BY <1>1, <2>1
  <2> DEFINE g == [s \in SUBSET D |-> IF Cardinality(s) <= m - 1 THEN folds[s]
                                       ELSE Fold(of, bases, folds, s)]
  <2>3. ASSUME NEW s \in SUBSET D, Cardinality(s) <= m
        PROVE  g[s] = Fold(of, bases, g, s)
    <3>1. g[s] = Fold(of, bases, folds, s)
      BY <2>2 DEF FoldsTo
    <3>2. CASE s = {}
      BY <3>1, <3>2 DEF Fold
    <3>3. CASE s # {}
      <4> DEFINE x == CHOOSE x \in s : TRUE
      <4>1. s \ {x} \in SUBSET D /\ Cardinality(s \ {x}) = Cardinality(s) - 1
        BY <3>3, Smaller
      <4>2. Cardinality(s \ {x}) <= m - 1
        BY <1>2, <2>1, <2>3, <4>1
      <4>3. g[s \ {x}] = folds[s \ {x}]
        BY <4>1, <4>2
      <4> HIDE DEF g
      <4>4. QED  BY <3>1, <3>3, <4>3 DEF Fold
    <3>4. QED  BY <3>2, <3>3
  <2> HIDE DEF g
  <2>4. FoldsTo(of, bases, D, m, g)
    BY <2>3 DEF FoldsTo
  <2>5. QED  BY <1>1, <2>4
<1>5. QED  BY <1>3, <1>4

\* So the folds exist, the bases being finitely many.
LEMMA FoldsExist ==
  ASSUME NEW of, NEW bases, NEW D, IsFiniteSet(D)
  PROVE  \E folds : Folds(of, bases, D, folds)
<1>1. Cardinality(D) \in Nat
  BY FS_CardinalityType
<1>2. PICK f : FoldsTo(of, bases, D, Cardinality(D), f)
  BY <1>1, FoldsToExist
<1> DEFINE g == [s \in SUBSET D |-> f[s]]
<1>3. ASSUME NEW s \in SUBSET D PROVE g[s] = Fold(of, bases, g, s)
  <2>1. g[s] = Fold(of, bases, f, s)
    BY <1>2, FS_Subset DEF FoldsTo
  <2>2. CASE s = {}
    BY <2>1, <2>2 DEF Fold
  <2>3. CASE s # {}
    <3>1. (CHOOSE x \in s : TRUE) \in s
      BY <2>3
    <3>2. g[s \ {CHOOSE x \in s : TRUE}] = f[s \ {CHOOSE x \in s : TRUE}]
      BY <3>1
    <3> HIDE DEF g
    <3>3. QED  BY <2>1, <2>3, <3>2 DEF Fold
  <2>4. QED  BY <2>2, <2>3
<1>4. g = [s \in SUBSET D |-> g[s]]
  OBVIOUS
<1> HIDE DEF g
<1>5. Folds(of, bases, D, g)
  BY <1>3, <1>4 DEF Folds
<1>6. QED  BY <1>5

\* Registers whose lineage tells their payload.
Told(r) == r \in Register /\ XorOf(r.xor_lineage.payloads) = r.payload

\* At every step of the two folds the lineages' tell the payloads'.
LEMMA FoldsAgree ==
  ASSUME NEW bases, NEW D, IsFiniteSet(D), \A i \in D : Told(bases[i]),
         NEW payloads, Folds("payload", bases, D, payloads),
         NEW lineages, Folds("lineage", bases, D, lineages)
  PROVE  \A s \in SUBSET D :
           /\ payloads[s] \in Lane /\ lineages[s].payloads \in SUBSET Lane
           /\ XorOf(lineages[s].payloads) = payloads[s]
<1> DEFINE Good(s) == /\ payloads[s] \in Lane /\ lineages[s].payloads \in SUBSET Lane
                      /\ XorOf(lineages[s].payloads) = payloads[s]
           Bad == {s \in SUBSET D : ~Good(s)}
           Sizes == {Cardinality(s) : s \in Bad}
<1>1. \A s \in SUBSET D : Cardinality(s) \in Nat
  BY FS_Subset, FS_CardinalityType
<1> SUFFICES ASSUME Bad # {} PROVE FALSE
  OBVIOUS
<1>2. PICK n \in Sizes : \A j \in Sizes : n <= j
  <2>1. Sizes \subseteq Nat /\ Sizes # {}
    BY <1>1
  <2> HIDE DEF Sizes
  <2>2. QED  BY <2>1, LeastNumber
<1>3. PICK s \in Bad : n = Cardinality(s)
  BY <1>2
<1>4. \A r \in SUBSET D : Cardinality(r) = Cardinality(s) - 1 => Good(r)
  <2> SUFFICES ASSUME NEW r \in SUBSET D, Cardinality(r) = Cardinality(s) - 1, ~Good(r)
               PROVE  FALSE
    OBVIOUS
  <2>1. Cardinality(r) \in Sizes
    OBVIOUS
  <2> HIDE DEF Sizes, Good, Bad
  <2>2. n <= Cardinality(s) - 1 /\ Cardinality(s) \in Nat
    BY <1>1, <1>2, <1>3, <2>1 DEF Bad
  <2>3. QED  BY <1>3, <2>2
<1>5. s \in SUBSET D /\ payloads[s] = Fold("payload", bases, payloads, s)
        /\ lineages[s] = Fold("lineage", bases, lineages, s)
  BY <1>3 DEF Folds
<1>6. CASE s = {}
  <2>1. payloads[s] = {} /\ lineages[s] = NoLineage
    BY <1>5, <1>6 DEF Fold
  <2>2. lineages[s].payloads = {}
    BY <2>1 DEF NoLineage
  <2>3. Good(s)
    BY <2>1, <2>2, XorOfNone DEF Lane
  <2>4. QED  BY <1>3, <2>3
<1>7. CASE s # {}
  <2> DEFINE x == CHOOSE x \in s : TRUE
             r == s \ {x}
  <2>1. x \in D /\ r \in SUBSET D /\ Cardinality(r) = Cardinality(s) - 1
    BY <1>5, <1>7, Smaller
  <2>2. /\ payloads[s] = Xor(payloads[r], bases[x].payload)
        /\ lineages[s] = Combine(lineages[r], bases[x].xor_lineage)
    BY <1>5, <1>7 DEF Fold
  <2> HIDE DEF x, r
  <2>3. Good(r)
    BY <1>4, <2>1
  <2>4. /\ bases[x].payload \in Lane /\ bases[x].xor_lineage.payloads \in SUBSET Lane
        /\ XorOf(bases[x].xor_lineage.payloads) = bases[x].payload
    BY <2>1 DEF Told, Register, XorLineage
  <2>5. lineages[s].payloads = Xor(lineages[r].payloads, bases[x].xor_lineage.payloads)
    BY <2>2 DEF Combine
  <2>6. XorOf(lineages[s].payloads) = payloads[s]
    BY <2>2, <2>3, <2>4, <2>5, XorOfXor
  <2>7. payloads[s] \in Lane /\ lineages[s].payloads \in SUBSET Lane
    BY <2>2, <2>3, <2>4, <2>5, XorType DEF Xor
  <2>8. Good(s)
    BY <2>6, <2>7
  <2>9. QED  BY <1>3, <2>8
<1>8. QED  BY <1>6, <1>7

\* An XOR chain's lineage tells its payload, if its bases' lineages tell theirs.
LEMMA ChainTells ==
  ASSUME NEW bases, IsFiniteSet(DOMAIN bases), \A i \in DOMAIN bases : Told(bases[i])
  PROVE  LET p == CompoundPayload("XorChain", bases)
             l == CompoundLineage("XorChain", bases)
         IN  p \in Lane /\ l.payloads \in SUBSET Lane /\ XorOf(l.payloads) = p
<1> DEFINE D == DOMAIN bases
           IsPayloads(f) == f = [s \in SUBSET D |->
             IF s = {} THEN {}
             ELSE LET x == CHOOSE x \in s : TRUE IN Xor(f[s \ {x}], bases[x].payload)]
           IsLineages(f) == f = [s \in SUBSET D |->
             IF s = {} THEN NoLineage
             ELSE LET x == CHOOSE x \in s : TRUE IN Combine(f[s \ {x}], bases[x].xor_lineage)]
           payloads == CHOOSE f : IsPayloads(f)
           lineages == CHOOSE f : IsLineages(f)
<1>1. \A f : Folds("payload", bases, D, f) <=> IsPayloads(f)
  BY DEF Folds, Fold
<1>2. \A f : Folds("lineage", bases, D, f) <=> IsLineages(f)
  BY DEF Folds, Fold
<1>3. CompoundPayload("XorChain", bases) = payloads[D]
  BY DEF CompoundPayload, FoldSeq, FoldFunction, FoldFunctionOnSet, MapThenFoldSet
<1>4. CompoundLineage("XorChain", bases) = lineages[D]
  BY DEF CompoundLineage, FoldSeq, FoldFunction, FoldFunctionOnSet, MapThenFoldSet
<1> HIDE DEF IsPayloads, IsLineages
<1>5. IsPayloads(payloads) /\ IsLineages(lineages)
  BY <1>1, <1>2, FoldsExist
<1> HIDE DEF payloads, lineages
<1>6. Folds("payload", bases, D, payloads) /\ Folds("lineage", bases, D, lineages)
  BY <1>1, <1>2, <1>5
<1>7. /\ payloads[D] \in Lane /\ lineages[D].payloads \in SUBSET Lane
      /\ XorOf(lineages[D].payloads) = payloads[D]
  BY <1>6, FoldsAgree
<1>8. QED  BY <1>3, <1>4, <1>7

\* The bases of a compound, once stored, are registers whose lineages tell their payloads.
LEMMA BasesTell ==
  ASSUME StoreInv, NEW addresses \in Seq(Addr), ToSet(addresses) \subseteq DOMAIN registers,
         NEW bases, bases = [i \in DOMAIN addresses |-> registers[addresses[i]]]
  PROVE  IsFiniteSet(DOMAIN bases) /\ \A i \in DOMAIN bases : Told(bases[i])
<1>1. IsFiniteSet(DOMAIN bases)
  <2>1. Len(addresses) \in Nat /\ DOMAIN addresses = 1 .. Len(addresses)
    OBVIOUS
  <2>2. QED  BY <2>1, FS_Interval
<1>2. \A i \in DOMAIN bases : addresses[i] \in DOMAIN registers
  BY DEF ToSet
<1>3. QED  BY <1>1, <1>2 DEF Told, StoreInv, Belongs

\* A compound that chains its bases has a lineage that tells its payload.
ChainInv ==
  compound # NoCompound /\ compound.combining = "XorChain" =>
    /\ compound.payload \in Lane /\ compound.xor_lineage.payloads \in SUBSET Lane
    /\ XorOf(compound.xor_lineage.payloads) = compound.payload

\* Every step keeps it, update_base too, which leaves the old base in both.
LEMMA ChainStep == TypeInv /\ ChainInv /\ [Next]_vars => ChainInv'
<1> SUFFICES ASSUME TypeInv, ChainInv, [Next]_vars PROVE ChainInv'
  OBVIOUS
<1>1. ASSUME NEW t \in Threads, NEW c \in Compounds, BuildCompound(t, c) PROVE ChainInv'
  <2> DEFINE bases == [i \in DOMAIN c[2] |-> registers[c[2][i]]]
  <2>1. c[2] \in Seq(Addr) /\ ToSet(c[2]) \subseteq DOMAIN registers
    BY <1>1, ModelsConstants DEF BuildCompound
  <2>2. \/ compound' = NewCompound(c[1], bases)
        \/ compound' = FromAddresses(c[1], c[2])
    BY <1>1 DEF BuildCompound
  <2>3. IsFiniteSet(DOMAIN bases) /\ \A i \in DOMAIN bases : Told(bases[i])
    BY <2>1, BasesTell DEF TypeInv
  <2> HIDE DEF bases
  <2>4. CASE compound' = NewCompound(c[1], bases)
    <3>1. /\ compound'.combining = c[1]
          /\ compound'.payload = CompoundPayload(c[1], bases)
          /\ compound'.xor_lineage = CompoundLineage(c[1], bases)
      BY <2>4 DEF NewCompound
    <3>2. QED  BY <2>3, <3>1, ChainTells DEF ChainInv
  <2>5. CASE compound' = FromAddresses(c[1], c[2])
    <3>1. compound'.payload = {} /\ compound'.xor_lineage.payloads = {}
      BY <2>5 DEF FromAddresses, NoLineage
    <3>2. QED  BY <3>1, XorOfNone DEF ChainInv, Lane
  <2>6. QED  BY <2>2, <2>4, <2>5
<1>2. ASSUME NEW t \in Threads, NEW i \in 1 .. 2, NEW a \in Addr, UpdateCompound(t, i, a)
      PROVE  ChainInv'
  <2> DEFINE c == compound
             r == registers[a]
             addresses == [c.base_addresses EXCEPT ![i] = r.address]
             p == Xor(c.payload, r.payload)
             l == Combine(c.xor_lineage, r.xor_lineage)
  <2>1. c # NoCompound /\ a \in DOMAIN registers /\ compound' = UpdateBase(c, i, r)
    BY <1>2 DEF UpdateCompound
  <2>2. /\ c = [combining |-> c.combining, base_addresses |-> c.base_addresses,
                payload |-> c.payload, xor_lineage |-> c.xor_lineage]
        /\ Told(r)
    BY <2>1 DEF TypeInv, CompoundInv, StoreInv, Belongs, Told
  <2>3. compound' = IF c.combining = "XorChain"
          THEN [c EXCEPT !.base_addresses = addresses, !.payload = p, !.xor_lineage = l]
          ELSE [c EXCEPT !.base_addresses = addresses]
    BY <2>1, <2>2 DEF UpdateBase
  <2>4. CASE c.combining = "XorChain"
    <3>1. compound'.payload = p /\ compound'.xor_lineage = l
      <4> HIDE DEF p, l, addresses, c
      <4> QED  BY <2>2, <2>3, <2>4
    <3>2. /\ c.payload \in Lane /\ c.xor_lineage.payloads \in SUBSET Lane
          /\ XorOf(c.xor_lineage.payloads) = c.payload
      BY <2>1, <2>4 DEF ChainInv
    <3>3. r.payload \in Lane /\ r.xor_lineage.payloads \in SUBSET Lane
      BY <2>2 DEF Told, Register, XorLineage
    <3>4. l.payloads = Xor(c.xor_lineage.payloads, r.xor_lineage.payloads)
      BY DEF Combine
    <3>5. XorOf(l.payloads) = p
      BY <2>2, <3>2, <3>3, <3>4, XorOfXor DEF Told
    <3>6. p \in Lane /\ l.payloads \in SUBSET Lane
      BY <3>2, <3>3, <3>4, XorType DEF Xor
    <3> HIDE DEF p, l
    <3>7. QED  BY <3>1, <3>5, <3>6 DEF ChainInv
  <2>5. CASE c.combining # "XorChain"
    <3>1. compound'.combining = c.combining
      <4> HIDE DEF addresses, c
      <4> QED  BY <2>2, <2>3, <2>5
    <3>2. QED  BY <2>5, <3>1 DEF ChainInv
  <2>6. QED  BY <2>4, <2>5
<1>3. CASE UNCHANGED compound
  BY <1>3 DEF ChainInv
<1>4. \/ UNCHANGED compound
      \/ \E t \in Threads, c \in Compounds : BuildCompound(t, c)
      \/ \E t \in Threads, i \in 1 .. 2, a \in Addr : UpdateCompound(t, i, a)
  BY DEF Next, vars, Write, InjectAdaptRaw, InjectAdapt, AdaptWrite, ReadRegister, AttachModel,
         AttachInsert, AttachDeltaModel, ReadModels, ReadDelta, ReadReturn
<1>5. QED  BY <1>1, <1>2, <1>3, <1>4

\* An XOR chain that is_consistent (register.rs:520) accepts holds the payload its bases
\* have now: its lineage tells its payload, and theirs tell what it should be.
THEOREM ConsistentCompoundsAreCurrent == Spec => []ConsistentCompoundIsCurrent
<1>1. Init => ChainInv
  BY DEF Init, ChainInv
<1>2. TypeInv /\ ChainInv => ConsistentCompoundIsCurrent
  <2> SUFFICES ASSUME TypeInv, ChainInv, compound # NoCompound, compound.combining = "XorChain",
                      IsConsistent(compound, registers)
               PROVE  compound.payload = CompoundPayload("XorChain", BasesOf(compound, registers))
    BY DEF ConsistentCompoundIsCurrent
  <2> DEFINE bases == BasesOf(compound, registers)
  <2>1. /\ ToSet(compound.base_addresses) \subseteq DOMAIN registers
        /\ compound.xor_lineage = CompoundLineage("XorChain", bases)
    BY DEF IsConsistent
  <2>2. IsFiniteSet(DOMAIN bases) /\ \A i \in DOMAIN bases : Told(bases[i])
    BY <2>1, BasesTell DEF TypeInv, CompoundInv, BasesOf
  <2> HIDE DEF bases
  <2>3. XorOf(CompoundLineage("XorChain", bases).payloads) = CompoundPayload("XorChain", bases)
    BY <2>2, ChainTells
  <2>4. QED  BY <2>1, <2>3 DEF ChainInv, bases
<1>3. TypeInv /\ [Next]_vars => TypeInv'
  BY StoreStep, ModelsStep, CallsStep, CompoundStep, HistoryStep DEF TypeInv
<1>4. QED  BY <1>1, <1>2, <1>3, TypeInit, ChainStep, PTL DEF Spec
=============================================================================
