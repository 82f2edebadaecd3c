---------------------------- MODULE BackendsProofs ----------------------------
(***************************************************************************)
(* Theorems about Backends, for any number of threads, any operands and    *)
(* any width of a machine word: no lane has a bit beyond its length, no    *)
(* pointer outlives what it points to, and compute meets a backend that is *)
(* not ready only if its choice could fall on one.                         *)
(***************************************************************************)
EXTENDS Backends, WellFoundedInduction, TLAPS

-----------------------------------------------------------------------------
(* Lanes: every operation of the native backend keeps them whole. *)

\* Quotient and remainder by the width of a word.
LEMMA DivMod ==
  ASSUME NEW n \in Nat
  PROVE  /\ n \div W \in Nat /\ n % W \in 0 .. W - 1
         /\ n = (n \div W) * W + (n % W)
BY WordWidth

\* A quotient is determined by its bounds.
LEMMA DivUnique ==
  ASSUME NEW n \in Nat, NEW q \in Nat, NEW r \in 0 .. W - 1, n = q * W + r
  PROVE  n \div W = q
BY WordWidth

\* The words of n bits: n of their bits if they fill the words, else a rest in the last.
LEMMA WordsOfBits ==
  ASSUME NEW n \in Nat
  PROVE  /\ WordsFor(n) \in Nat
         /\ n % W = 0 => WordsFor(n) * W = n
         /\ n % W # 0 => (WordsFor(n) - 1) * W + (n % W) = n
<1> DEFINE q == n \div W
           r == n % W
<1>1. q \in Nat /\ r \in 0 .. W - 1 /\ n = q * W + r /\ W \in Nat \ {0}
  BY DivMod, WordWidth
<1> HIDE DEF q, r
<1>2. CASE r = 0
  <2>1. n + W - 1 \in Nat /\ W - 1 \in 0 .. W - 1 /\ n + W - 1 = q * W + (W - 1)
    BY <1>1, <1>2
  <2>2. WordsFor(n) = q
    BY <1>1, <2>1, DivUnique DEF WordsFor
  <2>3. QED  BY <1>1, <1>2, <2>2 DEF r
<1>3. CASE r # 0
  <2>1. (q + 1) * W = q * W + W
    BY <1>1
  <2>2. n + W - 1 \in Nat /\ r - 1 \in 0 .. W - 1 /\ n + W - 1 = (q + 1) * W + (r - 1)
    BY <1>1, <1>3, <2>1
  <2>3. WordsFor(n) = q + 1
    BY <1>1, <2>2, DivUnique DEF WordsFor
  <2>4. QED  BY <1>1, <1>3, <2>3 DEF r
<1>4. QED  BY <1>2, <1>3

\* A lane with other bits within its length is a lane.
LEMMA SameLengthIsLane ==
  ASSUME NEW a, IsLane(a), NEW S \in SUBSET Nat, \A i \in S : i < a.num_bits
  PROVE  /\ IsLane([a EXCEPT !.set = S])
         /\ [a EXCEPT !.set = S].num_bits = a.num_bits
BY DEF IsLane, TailIsClear

\* A new lane is one.
LEMMA WithCapacityIsLane ==
  ASSUME NEW n \in Nat
  PROVE  IsLane(WithCapacity(n)) /\ WithCapacity(n).num_bits = n
BY WordsOfBits DEF WithCapacity, IsLane, TailIsClear

\* So is one made from bits.
LEMMA FromBitsIsLane ==
  ASSUME NEW n \in Nat, NEW ones
  PROVE  IsLane(FromBits(n, ones))
<1> DEFINE S == ones \cap 0 .. (n - 1)
<1>1. S \in SUBSET Nat /\ \A i \in S : i < n
  OBVIOUS
<1>2. FromBits(n, ones) = [WithCapacity(n) EXCEPT !.set = S]
  BY DEF FromBits
<1> HIDE DEF S
<1>3. QED  BY <1>1, <1>2, WithCapacityIsLane, SameLengthIsLane

\* The mask of the last word clears what negation sets beyond the length.
LEMMA NotInplaceIsLane ==
  ASSUME NEW a, IsLane(a)
  PROVE  IsLane(NotInplace(a)) /\ NotInplace(a).num_bits = a.num_bits
<1> DEFINE n == a.num_bits
           w == a.words
           flipped == Positions(a) \ a.set
           S == IF n % W = 0 THEN flipped
                ELSE {i \in flipped : i < (w - 1) * W + (n % W)}
<1>1. n \in Nat /\ w = WordsFor(n) /\ w \in Nat
  BY DEF IsLane
<1>2. flipped \subseteq Nat /\ \A i \in flipped : i < w * W
  BY <1>1, WordWidth DEF Positions
<1>3. \A i \in S : i < n
  <2>1. CASE n % W = 0
    BY <1>1, <1>2, <2>1, WordsOfBits
  <2>2. CASE n % W # 0
    BY <1>1, <1>2, <2>2, WordsOfBits
  <2>3. QED  BY <2>1, <2>2
<1>4. NotInplace(a) = [a EXCEPT !.set = S]
  BY DEF NotInplace
<1>5. S \in SUBSET Nat
  BY <1>2
<1> HIDE DEF S
<1>6. QED  BY <1>3, <1>4, <1>5, SameLengthIsLane DEF n

\* The merges keep the length of the first lane, and the second is no longer.
LEMMA MergesAreLanes ==
  ASSUME NEW a, IsLane(a), NEW b, IsLane(b), SameLength(a, b)
  PROVE  /\ IsLane(XorMerge(a, b)) /\ XorMerge(a, b).num_bits = a.num_bits
         /\ IsLane(AndMerge(a, b)) /\ AndMerge(a, b).num_bits = a.num_bits
<1> DEFINE S == (a.set \ b.set) \cup (b.set \ a.set)
           T == a.set \cap b.set
<1>1. S \in SUBSET Nat /\ T \in SUBSET Nat /\ \A i \in S \cup T : i < a.num_bits
  BY DEF IsLane, TailIsClear, SameLength
<1>2. XorMerge(a, b) = [a EXCEPT !.set = S] /\ AndMerge(a, b) = [a EXCEPT !.set = T]
  BY DEF XorMerge, AndMerge
<1> HIDE DEF S, T
<1>3. QED  BY <1>1, <1>2, SameLengthIsLane

\* Setting a bit leaves the length.
LEMMA SetBitIsLane ==
  ASSUME NEW a, IsLane(a), NEW i \in Nat, NEW value \in BOOLEAN
  PROVE  IsLane(SetBit(a, i, value))
<1>1. CASE i >= a.num_bits
  BY <1>1 DEF SetBit
<1>2. CASE i < a.num_bits
  <2> DEFINE S == IF value THEN a.set \cup {i} ELSE a.set \ {i}
  <2>1. S \in SUBSET Nat /\ \A j \in S : j < a.num_bits
    BY <1>2 DEF IsLane, TailIsClear
  <2>2. SetBit(a, i, value) = [a EXCEPT !.set = S]
    BY <1>2 DEF SetBit, IsLane
  <2> HIDE DEF S
  <2>3. QED  BY <2>1, <2>2, SameLengthIsLane
<1>3. QED  BY <1>1, <1>2 DEF IsLane

-----------------------------------------------------------------------------
(* The payloads of the operands. *)

\* A set of numbers that is not empty has a least one.
LEMMA LeastNumber ==
  ASSUME NEW S, S \subseteq Nat, S # {}
  PROVE  \E i \in S : \A j \in S : i <= j
<1>1. PICK i \in S : \A j \in S : <<j, i>> \notin OpToRel(<, Nat)
  BY WFMin, NatLessThanWellFounded, Zenon
<1>2. \A j \in S : j \in Nat /\ i \in Nat
  OBVIOUS
<1>3. \A j \in S : ~(j < i)
  BY <1>1, <1>2, Zenon DEF OpToRel
<1>4. QED  BY <1>2, <1>3

\* One step of the walk over the operands.
Kept(found, payload) == IF payload = None THEN found ELSE Append(found, payload)

Walk(payloads, n, found) ==
  found = [k \in 0 .. n |-> IF k = 0 THEN <<>> ELSE Kept(found[k - 1], payloads[k])]

\* The walk over n operands exists: the least number of which it did not would have
\* a predecessor whose walk goes on for one step.
LEMMA WalkExists ==
  ASSUME NEW payloads, NEW n \in Nat
  PROVE  \E found : Walk(payloads, n, found)
<1> DEFINE S == {m \in Nat : ~ \E found : Walk(payloads, m, found)}
<1> SUFFICES ASSUME S # {} PROVE FALSE
  OBVIOUS
<1>1. PICK m \in S : \A j \in S : m <= j
  <2> HIDE DEF S
  <2>1. S \subseteq Nat
    BY DEF S
  <2>2. QED  BY <2>1, LeastNumber
<1>2. CASE m = 0
  <2>1. Walk(payloads, 0, [k \in 0 .. 0 |-> <<>>])
    BY DEF Walk
  <2>2. QED  BY <1>1, <1>2, <2>1
<1>3. CASE m # 0
  <2>1. m - 1 \in Nat /\ m \in Nat /\ ~(m <= m - 1)
    BY <1>3
  <2>2. PICK found : Walk(payloads, m - 1, found)
    BY <1>1, <2>1
  <2> DEFINE g == [k \in 0 .. m |-> IF k = m THEN Kept(found[m - 1], payloads[m]) ELSE found[k]]
  <2>3. ASSUME NEW k \in 0 .. m
        PROVE  g[k] = IF k = 0 THEN <<>> ELSE Kept(g[k - 1], payloads[k])
    <3>1. CASE k = 0
      BY <3>1, <1>3, <2>1, <2>2 DEF Walk
    <3>2. CASE k = m
      BY <3>2, <1>3, <2>1
    <3>3. CASE k # 0 /\ k # m
      <4>1. k \in 0 .. m - 1 /\ k - 1 \in 0 .. m - 1 /\ k - 1 # m /\ k - 1 \in 0 .. m
        BY <3>3, <2>1
      <4>2. found[k] = Kept(found[k - 1], payloads[k])
        BY <3>3, <4>1, <2>2 DEF Walk
      <4>3. QED  BY <3>3, <4>1, <4>2
    <3>4. QED  BY <3>1, <3>2, <3>3
  <2>4. Walk(payloads, m, g)
    <3>1. DOMAIN g = 0 .. m /\ g = [k \in 0 .. m |-> g[k]]
      OBVIOUS
    <3> HIDE DEF g
    <3>2. QED  BY <2>3, <3>1 DEF Walk
  <2>5. QED  BY <1>1, <2>4
<1>4. QED  BY <1>2, <1>3

\* The walk keeps lanes.
LEMMA WalkKeepsLanes ==
  ASSUME NEW payloads, NEW n \in Nat, NEW found, Walk(payloads, n, found),
         \A k \in 1 .. n : payloads[k] # None => IsLane(payloads[k])
  PROVE  /\ found[n] \in Seq({payloads[k] : k \in 1 .. n})
         /\ \A i \in 1 .. Len(found[n]) : IsLane(found[n][i])
<1> DEFINE P == {payloads[k] : k \in 1 .. n}
           Good(s) == s \in Seq(P) /\ \A i \in 1 .. Len(s) : IsLane(s[i])
           S == {m \in 0 .. n : ~ Good(found[m])}
<1> SUFFICES ASSUME S # {} PROVE FALSE
  <2> n \in 0 .. n
    OBVIOUS
  <2> QED  OBVIOUS
<1>1. PICK m \in S : \A j \in S : m <= j
  <2> HIDE DEF S
  <2>1. S \subseteq Nat
    BY DEF S
  <2>2. QED  BY <2>1, LeastNumber
<1>2. CASE m = 0
  <2>1. found[0] = <<>>
    BY DEF Walk
  <2>2. Good(<<>>)
    <3> HIDE DEF P
    <3> QED  OBVIOUS
  <2> HIDE DEF Good
  <2>3. QED  BY <1>1, <1>2, <2>1, <2>2
<1>3. CASE m # 0
  <2>1. m - 1 \in 0 .. n /\ m \in 1 .. n /\ ~(m <= m - 1)
    BY <1>3
  <2>2. Good(found[m - 1])
    <3> HIDE DEF Good
    <3> QED  BY <1>1, <2>1
  <2>3. found[m] = Kept(found[m - 1], payloads[m])
    BY <2>1 DEF Walk
  <2>4. payloads[m] \in P
    BY <2>1
  <2> DEFINE s == found[m - 1]
  <2>5. Good(found[m])
    <3> HIDE DEF P, s
    <3>1. CASE payloads[m] = None
      BY <3>1, <2>2, <2>3 DEF Kept, s
    <3>2. CASE payloads[m] # None
      <4>1. found[m] = Append(s, payloads[m]) /\ IsLane(payloads[m])
        BY <3>2, <2>1, <2>3 DEF Kept, s
      <4>2. s \in Seq(P) /\ \A i \in 1 .. Len(s) : IsLane(s[i])
        BY <2>2 DEF s
      <4>3. QED  BY <4>1, <4>2, <2>4
    <3>3. QED  BY <3>1, <3>2
  <2>6. QED  BY <1>1, <2>5
<1>4. QED  BY <1>2, <1>3

\* What is found of the operands is lanes, if the registers hold lanes.
LEMMA FoundIsLanes ==
  ASSUME NEW operands, operands \in Seq({X, Y, Z}),
         \A r \in {X, Y, Z} : registers[r] # None => IsLane(registers[r])
  PROVE  /\ \E P : Found(operands) \in Seq(P)
         /\ \A i \in 1 .. Len(Found(operands)) : IsLane(Found(operands)[i])
<1> DEFINE payloads == [k \in 1 .. Len(operands) |-> registers[operands[k]]]
           n == Len(operands)
           IsFound(f) == f = [k \in 0 .. Len(operands) |->
                                IF k = 0 THEN <<>>
                                ELSE IF registers[operands[k]] = None THEN f[k - 1]
                                ELSE Append(f[k - 1], registers[operands[k]])]
           found == CHOOSE f : IsFound(f)
<1>1. n \in Nat /\ \A k \in 1 .. n : operands[k] \in {X, Y, Z}
  OBVIOUS
<1>2. \A f : Walk(payloads, n, f) <=> IsFound(f)
  <2>1. \A k \in 0 .. n : k # 0 => payloads[k] = registers[operands[k]]
    OBVIOUS
  <2> HIDE DEF payloads
  <2>2. QED  BY <2>1 DEF Walk, Kept
<1>3. Found(operands) = found[n]
  BY DEF Found
<1>4. \A k \in 1 .. n : payloads[k] # None => IsLane(payloads[k])
  BY <1>1
<1>5. Walk(payloads, n, found)
  <2>1. \E f : IsFound(f)
    <3> HIDE DEF payloads, n, IsFound
    <3> QED  BY <1>1, <1>2, WalkExists
  <2>2. IsFound(found)
    <3> HIDE DEF IsFound
    <3> QED  BY <2>1
  <2> HIDE DEF payloads, n, IsFound, found
  <2>3. QED  BY <1>2, <2>2
<1> HIDE DEF found, payloads, n
<1>6. found[n] \in Seq({payloads[k] : k \in 1 .. n}) /\ \A i \in 1 .. Len(found[n]) : IsLane(found[n][i])
  BY <1>1, <1>4, <1>5, WalkKeepsLanes
<1>7. QED  BY <1>3, <1>6

-----------------------------------------------------------------------------
(* What the backends answer. *)

Lane == {lane \in [num_bits : Nat, words : Nat, set : SUBSET Nat] : IsLane(lane)}

Reasons == {"ok", "default", "not ready", "library", "tokens",
            "unsupported", "operands", "dimensions", "panic"}

AnswerType == [ok : BOOLEAN, why : Reasons, lane : Lane]

\* The type of a lane says no more than that it is one.
LEMMA LaneIsLane == \A lane : lane \in Lane <=> IsLane(lane)
BY DEF Lane, IsLane

\* A lane answered, and the empty lane of a failure.
LEMMA AnswerFacts ==
  /\ \A lane : IsLane(lane) => Answer(lane) \in AnswerType /\ Answer(lane).why # "not ready"
  /\ \A why \in Reasons : Failure(why) \in AnswerType /\ Failure(why).why = why
<1>1. IsLane(WithCapacity(0))
  BY WithCapacityIsLane
<1>2. QED  BY <1>1, LaneIsLane DEF Answer, Failure, AnswerType, Reasons

\* The operations of one and of two operands answer with whole lanes.
LEMMA OperationsKeepLanes ==
  /\ \A a : IsLane(a) => \A op \in NativeOps \ Binary : IsLane(OnOne(op, a))
  /\ \A a, b : IsLane(a) /\ IsLane(b) /\ SameLength(a, b)
       => \A op \in Binary : IsLane(OnTwo(op, a, b))
<1>1. ASSUME NEW a, IsLane(a), NEW op \in NativeOps \ Binary
      PROVE  IsLane(OnOne(op, a))
  <2>1. IsLane(NotInplace(a))
    BY <1>1, NotInplaceIsLane
  <2>2. IsLane(Rectified(a))
    <3>1. a.num_bits \in Nat
      BY <1>1 DEF IsLane
    <3>2. IsLane(WithCapacity(a.num_bits)) /\ WithCapacity(a.num_bits).num_bits = a.num_bits
      BY <3>1, WithCapacityIsLane
    <3>3. IsLane(AndMerge(a, WithCapacity(a.num_bits)))
      BY <1>1, <3>2, MergesAreLanes DEF SameLength
    <3>4. QED  BY <1>1, <3>3 DEF Rectified
  <2>3. op \in {"Cos", "NotGate", "SiLU", "GELU", "Sin"}
    BY <1>1 DEF NativeOps, Binary, Strict
  <2>4. QED  BY <1>1, <2>1, <2>2, <2>3 DEF OnOne
<1>2. ASSUME NEW a, NEW b, IsLane(a), IsLane(b), SameLength(a, b), NEW op \in Binary
      PROVE  IsLane(OnTwo(op, a, b))
  <2>1. /\ IsLane(XorMerge(a, b)) /\ XorMerge(a, b).num_bits = a.num_bits
        /\ IsLane(AndMerge(a, b)) /\ AndMerge(a, b).num_bits = a.num_bits
    BY <1>2, MergesAreLanes
  <2>2. IsLane(Parity(a, b))
    <3>1. (PopCount(AndMerge(a, b)) % 2 # 0) \in BOOLEAN
      BY Zenon
    <3>2. IsLane(WithCapacity(1)) /\ 0 \in Nat
      BY WithCapacityIsLane
    <3> DEFINE odd == PopCount(AndMerge(a, b)) % 2 # 0
    <3> HIDE DEF odd
    <3>3. IsLane(SetBit(WithCapacity(1), 0, odd))
      BY <3>1, <3>2, SetBitIsLane DEF odd
    <3>4. QED  BY <3>3 DEF Parity, odd
  <2>3. IsLane(NotInplace(XorMerge(a, b)))
    BY <2>1, NotInplaceIsLane
  <2>4. IsLane(NotInplace(AndMerge(NotInplace(a), NotInplace(b))))
    <3>1. /\ IsLane(NotInplace(a)) /\ IsLane(NotInplace(b))
          /\ SameLength(NotInplace(a), NotInplace(b))
      BY <1>2, NotInplaceIsLane DEF SameLength
    <3>2. IsLane(AndMerge(NotInplace(a), NotInplace(b)))
      BY <3>1, MergesAreLanes
    <3>3. QED  BY <3>2, NotInplaceIsLane
  <2>5. op \in {"Add", "XorGate", "Mul", "AndGate", "MatMul", "OrGate", "Hadamard"}
    BY <1>2 DEF Binary, Strict
  <2>6. QED  BY <2>1, <2>2, <2>3, <2>4, <2>5 DEF OnTwo
<1>3. QED  BY <1>1, <1>2

\* The native backend answers with a whole lane, and is always ready.
LEMMA NativeAnswers ==
  ASSUME NEW op, NEW P, NEW lanes \in Seq(P), \A i \in 1 .. Len(lanes) : IsLane(lanes[i])
  PROVE  NativeExecute(op, lanes) \in AnswerType /\ NativeExecute(op, lanes).why # "not ready"
<1>0. IsLane(WithCapacity(0))
  BY WithCapacityIsLane
<1>1. CASE op \notin NativeOps
  BY <1>1, AnswerFacts DEF NativeExecute, Reasons, Binary, Strict, NativeOps
<1>2. CASE op \in NativeOps /\ op \in Binary /\ Len(lanes) < 2
  <2>1. ~(Len(lanes) >= 2)
    BY <1>2
  <2>2. NativeExecute(op, lanes) = IF op \in Strict THEN Failure("operands")
                                   ELSE Answer(WithCapacity(0))
    BY <1>2, <2>1 DEF NativeExecute
  <2>3. QED  BY <1>0, <2>2, AnswerFacts DEF Reasons
<1>3. CASE op \in NativeOps /\ op \in Binary /\ Len(lanes) >= 2
  <2>1. ~(Len(lanes) < 2) /\ IsLane(lanes[1]) /\ IsLane(lanes[2])
    BY <1>3
  <2> DEFINE a == lanes[1]
             b == lanes[2]
  <2>2. NativeExecute(op, lanes)
        = IF SameLength(a, b) THEN Answer(OnTwo(op, a, b))
          ELSE Failure(IF op = "MatMul" THEN "dimensions" ELSE "panic")
    BY <1>3, <2>1 DEF NativeExecute
  <2> HIDE DEF a, b
  <2>3. SameLength(a, b) => IsLane(OnTwo(op, a, b))
    BY <1>3, <2>1, OperationsKeepLanes DEF a, b
  <2>4. QED  BY <2>2, <2>3, AnswerFacts DEF Reasons
<1>4. CASE op \in NativeOps /\ op \notin Binary
  <2> DEFINE a == IF lanes = <<>> THEN WithCapacity(0) ELSE lanes[1]
  <2>1. IsLane(a)
    BY <1>0
  <2>2. NativeExecute(op, lanes) = Answer(OnOne(op, a))
    BY <1>4 DEF NativeExecute
  <2> HIDE DEF a
  <2>3. IsLane(OnOne(op, a))
    BY <1>4, <2>1, OperationsKeepLanes
  <2>4. QED  BY <2>2, <2>3, AnswerFacts
<1>5. Len(lanes) < 2 \/ Len(lanes) >= 2
  <2>1. Len(lanes) \in Nat
    OBVIOUS
  <2>2. QED  BY <2>1
<1>6. QED  BY <1>1, <1>2, <1>3, <1>4, <1>5, Zenon

\* Whatever answers, the lane is whole; "not ready" is said only of a backend that
\* is in the set and not ready.
LEMMA AnswersAreTyped ==
  ASSUME NEW b \in Ids, NEW op, NEW P, NEW lanes \in Seq(P),
         \A i \in 1 .. Len(lanes) : IsLane(lanes[i]),
         NEW a \in Answers(b, op, lanes)
  PROVE  a \in AnswerType /\ (a.why = "not ready" => Added(b) /\ ~Ready(b))
<1>1. IsLane(WithCapacity(0)) /\ IsLane(FromBits(1, {})) /\ IsLane(FromBits(1, {0}))
  BY WithCapacityIsLane, FromBitsIsLane
<1>2. IsLane(First(lanes))
  BY <1>1 DEF First
<1>3. CASE ~Added(b)
  BY <1>3, AnswerFacts DEF Answers, Reasons
<1>4. CASE Added(b) /\ ~Ready(b)
  BY <1>4, AnswerFacts DEF Answers, Reasons
<1>5. CASE Added(b) /\ Ready(b) /\ b = "native"
  BY <1>5, NativeAnswers DEF Answers
<1>6. CASE Added(b) /\ Ready(b) /\ b # "native"
  <2>1. a \in {Failure("library"), Failure("tokens"), Answer(WithCapacity(0)),
               Answer(FromBits(1, {})), Answer(FromBits(1, {0})), Answer(First(lanes))}
    BY <1>6 DEF Answers, ExecuteSampleNextToken, ExecuteMatMul, ExecuteSoftmax,
                ExecuteAttention, Bit, NoLogits
  <2>2. QED  BY <1>1, <1>2, <2>1, AnswerFacts DEF Reasons
<1>7. QED  BY <1>3, <1>4, <1>5, <1>6

-----------------------------------------------------------------------------
(* The choice. *)

\* Scores are numbers.
LEMMA ScoreType ==
  ASSUME NEW b \in Ids, NEW op, NEW n \in Nat
  PROVE  Score(b, op, n) \in Nat
<1>1. E \in Nat /\ L \in Nat
  BY BackendsConstants DEF E, L
<1>2. LlamaEnergy(op) \in Nat
  <2>1. (E * L * 2) \div 10 \in Nat /\ E * L \in Nat /\ E * L * 2 \in Nat /\ E * 10 \in Nat
    <3>1. E * L \in Nat /\ E * L * 2 \in Nat
      BY <1>1
    <3>2. (E * L * 2) \div 10 \in Nat
      BY <3>1
    <3>3. QED  BY <1>1, <3>1, <3>2
  <2> DEFINE e == CASE op = "QuantizedMatMul" -> (E * L * 2) \div 10
                    [] op = "MatMul" -> E * L
                    [] op = "Attention" -> E * L * 2
                    [] op = "SampleNextToken" -> E * 10
                    [] op \in {"Softmax", "LayerNorm", "RMSNorm", "RoPE", "SiLU", "GELU",
                               "Add", "Mul"} -> E
                    [] OTHER -> 100
  <2>2. e \in Nat
    BY <1>1, <2>1
  <2>3. LlamaEnergy(op) = AtLeast1(e)
    BY DEF LlamaEnergy
  <2> HIDE DEF e
  <2>4. QED  BY <2>2, <2>3 DEF AtLeast1
<1>3. LlamaLatency(op) \in Nat
  <2>1. /\ (L * E * 2) \div 100 \in Nat /\ L * E \in Nat /\ L * E * 2 \in Nat
        /\ L * 100 \in Nat /\ L * 10 \in Nat /\ L * 5 \in Nat
    <3>1. L * E \in Nat /\ L * E * 2 \in Nat
      BY <1>1
    <3>2. (L * E * 2) \div 100 \in Nat
      BY <3>1
    <3>3. QED  BY <1>1, <3>1, <3>2
  <2> DEFINE e == CASE op = "QuantizedMatMul" -> (L * E * 2) \div 100
                    [] op = "MatMul" -> L * E
                    [] op = "Attention" -> L * E * 2
                    [] op = "SampleNextToken" -> L * 100
                    [] op \in {"Softmax", "RoPE"} -> L * 10
                    [] op \in {"LayerNorm", "RMSNorm", "SiLU", "GELU"} -> L * 5
                    [] op \in {"Add", "Mul"} -> L
                    [] OTHER -> 100
  <2>2. e \in Nat
    BY <1>1, <2>1
  <2>3. LlamaLatency(op) = AtLeast1(e)
    BY DEF LlamaLatency
  <2> HIDE DEF e
  <2>4. QED  BY <2>2, <2>3 DEF AtLeast1
<1>4. MlxEnergy(op) \in Nat /\ MlxLatency(op) \in Nat
  BY DEF MlxEnergy, MlxLatency
<1> DEFINE energy == CASE b = "native" -> 640 * n
                       [] b = "llama" -> LlamaEnergy(op) [] b = "mlx" -> MlxEnergy(op)
           latency == CASE b = "native" -> (n + 1) * 10
                        [] b = "llama" -> LlamaLatency(op) [] b = "mlx" -> MlxLatency(op)
<1>5. energy \in Nat /\ latency \in Nat
  BY <1>2, <1>3, <1>4 DEF Ids
<1>6. Score(b, op, n) = IF energy_aware THEN 10000 * energy + 10 * latency
                        ELSE 10000 * latency + energy
  BY DEF Score
<1> HIDE DEF energy, latency
<1>7. QED  BY <1>5, <1>6

\* The choice falls on a backend of the set that supports the operation.
LEMMA BestIsAble ==
  ASSUME NEW op, NEW n \in Nat, backends \in Seq(Ids), SelectBest(op, n) # None
  PROVE  \E i \in DOMAIN backends : /\ backends[i] = SelectBest(op, n)
                                    /\ op \in SupportedOps(backends[i])
<1> DEFINE able == {i \in DOMAIN backends : CanHandle(backends[i], op)}
           score == [i \in DOMAIN backends |-> Score(backends[i], op, n)]
           best == {i \in able : \A j \in able :
                      Score(backends[i], op, n) <= Score(backends[j], op, n)}
<1>1. able # {} /\ SelectBest(op, n) = backends[Min(best)]
  BY DEF SelectBest
<1>2. \A i \in DOMAIN backends : i \in Nat /\ backends[i] \in Ids
  OBVIOUS
<1>3. \A i \in able : Score(backends[i], op, n) \in Nat
  BY <1>2, ScoreType
<1>4. best # {}
  <2> DEFINE S == {Score(backends[i], op, n) : i \in able}
  <2>1. S \subseteq Nat /\ S # {}
    BY <1>1, <1>3
  <2>2. \E m \in S : \A k \in S : m <= k
    <3> HIDE DEF S
    <3> QED  BY <2>1, LeastNumber
  <2>3. QED  BY <2>2
<1>5. \E i \in best : \A j \in best : i <= j
  <2>1. best \subseteq Nat
    BY <1>2
  <2> HIDE DEF best
  <2>2. QED  BY <1>4, <2>1, LeastNumber
<1>6. Min(best) \in best
  <2> HIDE DEF best
  <2> QED  BY <1>5 DEF Min
<1>7. QED  BY <1>1, <1>6 DEF CanHandle

-----------------------------------------------------------------------------
(* Types. *)

CallType ==
  [pc : {"idle"}]
  \cup [pc : {"dispatch"}, op : Ops, operands : Operands, chosen : Ids, sure : BOOLEAN]
  \cup [pc : {"ffi"}, answer : AnswerType, sure : BOOLEAN, uses : Handle \cup {None}]
  \cup [pc : {"store"}, lane : Lane]
  \cup [pc : {"unready"}, sure : BOOLEAN]

\* Handles are given out in order: the live ones are among those given out.
Given == 0 .. (handles - 1)

Types ==
  /\ backends \in Seq(Ids) /\ Len(backends) > 0 /\ backends[1] = "native"
  /\ llama \in [model : Handle \cup {None}, ctx : Handle \cup {None},
                path : BOOLEAN, sized : BOOLEAN]
  /\ mlx \in [initialized : BOOLEAN, path : BOOLEAN]
  /\ handles \in 0 .. MaxHandles
  /\ models \subseteq Given /\ DOMAIN contexts \subseteq Given
  /\ replaced \in BOOLEAN /\ initialized \in BOOLEAN
  /\ registers \in [{X, Y, Z} -> Lane \cup {None}]
  /\ call \in [Threads -> CallType] /\ calls \in 0 .. MaxCalls

\* A handle that is still to be given out is one, and what is given out stays so.
LEMMA HandlesGiven ==
  ASSUME handles \in 0 .. MaxHandles
  PROVE  /\ MaxHandles \in Nat /\ Given \subseteq Handle /\ None \notin Handle
         /\ None \notin Given /\ handles \notin Given
         /\ handles < MaxHandles => /\ handles \in Handle /\ handles + 1 \in 0 .. MaxHandles
                                   /\ Given \cup {handles} = 0 .. (handles + 1 - 1)
BY BackendsConstants DEF Handle, Given

\* What a call is, by its place.
LEMMA CallFacts ==
  ASSUME NEW c \in CallType
  PROVE  /\ c.pc \in {"idle", "dispatch", "ffi", "store", "unready"}
         /\ c.pc = "dispatch" =>
              c \in [pc : {"dispatch"}, op : Ops, operands : Operands, chosen : Ids, sure : BOOLEAN]
         /\ c.pc = "ffi" =>
              c \in [pc : {"ffi"}, answer : AnswerType, sure : BOOLEAN, uses : Handle \cup {None}]
         /\ c.pc = "store" => c \in [pc : {"store"}, lane : Lane]
         /\ c.pc = "unready" => c \in [pc : {"unready"}, sure : BOOLEAN]
<1>1. CASE c \in [pc : {"idle"}]
  <2>1. c.pc = "idle"
    BY <1>1
  <2>2. QED  BY <2>1
<1>2. CASE c \in [pc : {"dispatch"}, op : Ops, operands : Operands, chosen : Ids, sure : BOOLEAN]
  <2>1. c.pc = "dispatch"
    BY <1>2
  <2>2. QED  BY <1>2, <2>1
<1>3. CASE c \in [pc : {"ffi"}, answer : AnswerType, sure : BOOLEAN, uses : Handle \cup {None}]
  <2>1. c.pc = "ffi"
    BY <1>3
  <2>2. QED  BY <1>3, <2>1
<1>4. CASE c \in [pc : {"unready"}, sure : BOOLEAN]
  <2>1. c.pc = "unready"
    BY <1>4
  <2>2. QED  BY <1>4, <2>1
<1>5. CASE c \in [pc : {"store"}, lane : Lane]
  <2>1. c.pc = "store"
    BY <1>5
  <2>2. QED  BY <1>5, <2>1
<1>6. QED  BY <1>1, <1>2, <1>3, <1>4, <1>5, Zenon DEF CallType

\* The five kinds of call.
LEMMA CallsMade ==
  /\ Idle \in CallType
  /\ \A op \in Ops, operands \in Operands, chosen \in Ids, sure \in BOOLEAN :
       [pc |-> "dispatch", op |-> op, operands |-> operands, chosen |-> chosen, sure |-> sure]
         \in CallType
  /\ \A a \in AnswerType, sure \in BOOLEAN, uses \in Handle \cup {None} :
       [pc |-> "ffi", answer |-> a, sure |-> sure, uses |-> uses] \in CallType
  /\ \A lane \in Lane : [pc |-> "store", lane |-> lane] \in CallType
  /\ \A sure \in BOOLEAN : [pc |-> "unready", sure |-> sure] \in CallType
BY Zenon DEF CallType, Idle

\* A backend that changes in the set makes the calls that chose before unsure, and
\* leaves everything else of every call.
LEMMA DisturbedFacts ==
  ASSUME call \in [Threads -> CallType]
  PROVE  /\ Disturbed \in [Threads -> CallType]
         /\ \A t \in Threads :
              /\ Disturbed[t].pc = call[t].pc
              /\ call[t].pc = "dispatch" => ~ Disturbed[t].sure
              /\ call[t].pc # "dispatch" => Disturbed[t] = call[t]
<1> SUFFICES ASSUME NEW t \in Threads
             PROVE  /\ Disturbed[t] \in CallType
                    /\ Disturbed[t].pc = call[t].pc
                    /\ call[t].pc = "dispatch" => ~ Disturbed[t].sure
                    /\ call[t].pc # "dispatch" => Disturbed[t] = call[t]
  BY DEF Disturbed
<1> DEFINE c == call[t]
<1>1. c \in CallType
  OBVIOUS
<1>2. CASE c.pc = "dispatch"
  <2>1. c \in [pc : {"dispatch"}, op : Ops, operands : Operands, chosen : Ids, sure : BOOLEAN]
    BY <1>1, <1>2, CallFacts
  <2>2. Disturbed[t] = [c EXCEPT !.sure = FALSE]
    BY <1>2 DEF Disturbed
  <2> HIDE DEF c
  <2>3. /\ [c EXCEPT !.sure = FALSE] \in [pc : {"dispatch"}, op : Ops, operands : Operands,
                                          chosen : Ids, sure : BOOLEAN]
        /\ [c EXCEPT !.sure = FALSE].pc = "dispatch" /\ ~ [c EXCEPT !.sure = FALSE].sure
    BY <2>1
  <2>4. QED  BY <1>2, <2>2, <2>3 DEF CallType, c
<1>3. CASE c.pc # "dispatch"
  <2>1. Disturbed[t] = c
    BY <1>3 DEF Disturbed
  <2>2. QED  BY <1>1, <1>3, <2>1
<1>4. QED  BY <1>2, <1>3

\* The types hold at the start.
LEMMA TypesInit == Init => Types
<1> SUFFICES ASSUME Init PROVE Types
  OBVIOUS
<1>1. backends \in Seq(Ids) /\ Len(backends) > 0 /\ backends[1] = "native"
  BY DEF Init, Ids
<1>2. /\ llama \in [model : Handle \cup {None}, ctx : Handle \cup {None},
                    path : BOOLEAN, sized : BOOLEAN]
      /\ mlx \in [initialized : BOOLEAN, path : BOOLEAN]
  BY DEF Init
<1>3. handles \in 0 .. MaxHandles /\ calls \in 0 .. MaxCalls
  BY BackendsConstants DEF Init
<1>4. models \subseteq Given /\ DOMAIN contexts \subseteq Given
  BY DEF Init
<1>5. replaced \in BOOLEAN /\ initialized \in BOOLEAN
  BY DEF Init
<1>6. registers \in [{X, Y, Z} -> Lane \cup {None}]
  <2>1. PICK f \in Stores : registers = [r \in {X, Y, Z} |-> IF r = Z THEN None ELSE f[r]]
    BY DEF Init
  <2>2. \A r \in {X, Y} : f[r] \in Lane \cup {None}
    BY BackendsConstants, LaneIsLane
  <2>3. QED  BY <2>1, <2>2
<1>7. call \in [Threads -> CallType]
  BY CallsMade DEF Init
<1>8. QED  BY <1>1, <1>2, <1>3, <1>4, <1>5, <1>6, <1>7 DEF Types

LlamaTypes ==
  /\ llama \in [model : Handle \cup {None}, ctx : Handle \cup {None},
                path : BOOLEAN, sized : BOOLEAN]
  /\ handles \in 0 .. MaxHandles
  /\ models \subseteq Given /\ DOMAIN contexts \subseteq Given
  /\ replaced \in BOOLEAN

\* The calls of the C library keep the types.
LEMMA LibraryTypes ==
  ASSUME LlamaTypes,
         \/ \E ok \in BOOLEAN : Load(ok)
         \/ \E ok \in BOOLEAN : InitContext(ok)
         \/ llama' = Unmap(llama) /\ UNCHANGED library
         \/ Teardown
         \/ UNCHANGED <<llama, library>>
  PROVE  LlamaTypes'
<1> USE DEF LlamaTypes
<1>1. /\ MaxHandles \in Nat /\ Given \subseteq Handle /\ None \notin Handle
      /\ handles < MaxHandles => /\ handles \in Handle /\ handles + 1 \in 0 .. MaxHandles
                                /\ Given \cup {handles} = 0 .. (handles + 1 - 1)
  BY HandlesGiven
<1>2. ASSUME NEW ok \in BOOLEAN, Load(ok)
      PROVE  LlamaTypes'
  <2>1. Given' = Given \cup {handles}
    BY <1>1, <1>2 DEF Load, Given
  <2>2. /\ (ok \/ llama.path) \in BOOLEAN /\ (ok \/ llama.sized) \in BOOLEAN
        /\ (replaced \/ llama.ctx # None) \in BOOLEAN
    BY Zenon
  <2>3. /\ llama' \in [model : Handle \cup {None}, ctx : Handle \cup {None},
                      path : BOOLEAN, sized : BOOLEAN]
        /\ replaced' \in BOOLEAN
    BY <1>1, <1>2, <2>2 DEF Load
  <2>4. models' \subseteq Given' /\ DOMAIN contexts' \subseteq Given'
    BY <1>2, <2>1 DEF Load
  <2>5. QED  BY <1>1, <1>2, <2>3, <2>4 DEF Load
<1>3. ASSUME NEW ok \in BOOLEAN, InitContext(ok)
      PROVE  LlamaTypes'
  <2>1. CASE ~ok
    BY <1>3, <2>1 DEF InitContext, Given
  <2>2. CASE ok
    <3>1. Given' = Given \cup {handles}
      BY <1>1, <1>3, <2>2 DEF InitContext, Given
    <3>2. (replaced \/ llama.ctx # None) \in BOOLEAN
      BY Zenon
    <3>3. /\ llama' \in [model : Handle \cup {None}, ctx : Handle \cup {None},
                        path : BOOLEAN, sized : BOOLEAN]
          /\ replaced' \in BOOLEAN
      BY <1>1, <1>3, <2>2, <3>2 DEF InitContext
    <3>4. models' \subseteq Given' /\ DOMAIN contexts' \subseteq Given'
      BY <1>3, <2>2, <3>1 DEF InitContext
    <3>5. QED  BY <1>1, <1>3, <2>2, <3>3, <3>4 DEF InitContext
  <2>3. QED  BY <2>1, <2>2
<1>4. CASE Teardown
  BY <1>4 DEF Teardown, Unmap, Without, Given
<1>5. CASE llama' = Unmap(llama) /\ UNCHANGED library
  BY <1>5 DEF Unmap, library, Given
<1>6. CASE UNCHANGED <<llama, library>>
  BY <1>6 DEF library, Given
<1>7. QED  BY <1>2, <1>3, <1>4, <1>5, <1>6

\* The answer a call waits for is of the type of answers.
LEMMA AnswerOfCall ==
  ASSUME Types, NEW t \in Threads, call[t].pc = "dispatch",
         NEW a \in Answers(call[t].chosen, call[t].op, Found(call[t].operands))
  PROVE  /\ a \in AnswerType
         /\ a.why = "not ready" => Added(call[t].chosen) /\ ~ Ready(call[t].chosen)
         /\ call[t].sure \in BOOLEAN
<1>1. call[t] \in [pc : {"dispatch"}, op : Ops, operands : Operands, chosen : Ids, sure : BOOLEAN]
  BY CallFacts DEF Types
<1>2. call[t].chosen \in Ids /\ call[t].operands \in Operands /\ call[t].sure \in BOOLEAN
  BY <1>1
<1>3. call[t].operands \in Seq({X, Y, Z})
  BY <1>2, BackendsConstants
<1>4. \A r \in {X, Y, Z} : registers[r] # None => IsLane(registers[r])
  <2>1. \A r \in {X, Y, Z} : registers[r] \in Lane \cup {None}
    BY DEF Types
  <2>2. QED  BY <2>1, LaneIsLane
<1> DEFINE lanes == Found(call[t].operands)
<1>5. PICK P : lanes \in Seq(P)
  BY <1>3, <1>4, FoundIsLanes
<1>6. \A i \in 1 .. Len(lanes) : IsLane(lanes[i])
  BY <1>3, <1>4, FoundIsLanes
<1>7. a \in Answers(call[t].chosen, call[t].op, lanes)
  OBVIOUS
<1> HIDE DEF lanes
<1>8. QED  BY <1>2, <1>5, <1>6, <1>7, AnswersAreTyped

\* Every step keeps the types.
LEMMA TypesNext == Types /\ [Next]_vars => Types'
<1> SUFFICES ASSUME Types, [Next]_vars PROVE Types'
  OBVIOUS
<1>0. LlamaTypes /\ call \in [Threads -> CallType]
  BY DEF Types, LlamaTypes
<1>1. CASE OwnLlama
  <2>1. LlamaTypes'
    BY <1>0, <1>1, LibraryTypes DEF OwnLlama
  <2>2. QED  BY <1>1, <2>1 DEF OwnLlama, Types, LlamaTypes, fabric
<1>2. CASE OwnMlx
  BY <1>2 DEF OwnMlx, Types, fabric, library, Given
<1>3. CASE ChangeLlama
  <2>1. LlamaTypes'
    BY <1>0, <1>3, LibraryTypes DEF ChangeLlama
  <2>2. call' \in [Threads -> CallType]
    BY <1>0, <1>3, DisturbedFacts DEF ChangeLlama
  <2>3. QED  BY <1>3, <2>1, <2>2 DEF ChangeLlama, Types, LlamaTypes
<1>4. CASE ChangeMlx
  <2>1. call' \in [Threads -> CallType]
    BY <1>0, <1>4, DisturbedFacts DEF ChangeMlx
  <2>2. mlx' \in [initialized : BOOLEAN, path : BOOLEAN]
    <3>1. \/ mlx' = [mlx EXCEPT !.initialized = TRUE]
          \/ mlx' = [initialized |-> FALSE, path |-> FALSE]
      BY <1>4 DEF ChangeMlx
    <3>2. [initialized |-> FALSE, path |-> FALSE] \in [initialized : BOOLEAN, path : BOOLEAN]
      BY Zenon
    <3>3. [mlx EXCEPT !.initialized = TRUE] \in [initialized : BOOLEAN, path : BOOLEAN]
      BY DEF Types
    <3>4. QED  BY <3>1, <3>2, <3>3, Zenon
  <2>3. QED  BY <1>4, <2>1, <2>2 DEF ChangeMlx, Types, library, Given
<1>5. CASE Initialize
  <2>1. LlamaTypes'
    BY <1>0, <1>5, LibraryTypes DEF Initialize
  <2>2. call' \in [Threads -> CallType]
    BY <1>0, <1>5, DisturbedFacts DEF Initialize
  <2>3. initialized' \in BOOLEAN
    BY <1>5 DEF Initialize, Types
  <2>4. mlx' \in [initialized : BOOLEAN, path : BOOLEAN]
    <3>1. mlx' = mlx \/ mlx' = [mlx EXCEPT !.initialized = TRUE]
      BY <1>5 DEF Initialize
    <3>2. QED  BY <3>1 DEF Types
  <2>5. UNCHANGED <<backends, registers, calls>>
    BY <1>5 DEF Initialize
  <2>6. QED  BY <2>1, <2>2, <2>3, <2>4, <2>5 DEF Types, LlamaTypes
<1>6. ASSUME NEW b \in Ids, Add(b)
      PROVE  Types'
  <2>1. backends' \in Seq(Ids) /\ Len(backends') > 0 /\ backends'[1] = "native"
    BY <1>6 DEF Add, Types
  <2>2. QED  BY <1>6, <2>1 DEF Add, Types, lives, fabric, Given
<1>7. ASSUME NEW t \in Threads, NEW op \in Ops, NEW operands \in Operands, NEW b \in Wanted,
             Select(t, op, operands, b)
      PROVE  Types'
  <2> DEFINE chosen == IF b # None THEN b ELSE SelectBest(op, Len(operands))
             new == IF chosen = None THEN Idle
                    ELSE [pc |-> "dispatch", op |-> op, operands |-> operands,
                          chosen |-> chosen, sure |-> Sure(op, b)]
  <2>1. call' = [call EXCEPT ![t] = new]
    BY <1>7 DEF Select
  <2>2. chosen \in Ids \cup {None}
    <3>1. Len(operands) \in Nat
      BY BackendsConstants
    <3>2. b = None => chosen \in Ids \cup {None}
      BY <3>1, BestIsAble DEF Types
    <3>3. QED  BY <3>2, BackendsConstants
  <2>3. new \in CallType
    <3> HIDE DEF chosen
    <3>1. Sure(op, b) \in BOOLEAN
      BY Zenon DEF Sure
    <3>2. QED  BY <2>2, <3>1, CallsMade
  <2>4. call' \in [Threads -> CallType]
    <3> HIDE DEF new
    <3> QED  BY <1>0, <2>1, <2>3
  <2>5. calls' \in 0 .. MaxCalls
    BY <1>7, BackendsConstants DEF Select, Types
  <2>6. QED  BY <1>7, <2>4, <2>5 DEF Select, Types, lives, Given
<1>8. ASSUME NEW t \in Threads, Dispatch(t)
      PROVE  Types'
  <2> DEFINE c == call[t]
  <2>1. PICK a \in Answers(c.chosen, c.op, Found(c.operands)) :
          call' = [call EXCEPT ![t] =
            [pc |-> "ffi", answer |-> a, sure |-> c.sure,
             uses |-> IF c.chosen = "llama" /\ Added("llama") /\ Ready("llama") /\ c.op \in InsideEval
                      THEN llama.ctx ELSE None]]
    BY <1>8 DEF Dispatch
  <2>2. a \in AnswerType /\ c.sure \in BOOLEAN
    BY <1>8, <2>1, AnswerOfCall DEF Dispatch
  <2>3. llama.ctx \in Handle \cup {None}
    BY DEF Types
  <2> HIDE DEF c
  <2>4. call' \in [Threads -> CallType]
    BY <1>0, <2>1, <2>2, <2>3, CallsMade
  <2>5. QED  BY <1>8, <2>4 DEF Dispatch, Types, lives, Given
<1>9. ASSUME NEW t \in Threads, Release(t)
      PROVE  Types'
  <2>1. call[t] \in [pc : {"ffi"}, answer : AnswerType, sure : BOOLEAN, uses : Handle \cup {None}]
    BY <1>0, <1>9, CallFacts DEF Release
  <2>2. call[t].answer.lane \in Lane /\ call[t].sure \in BOOLEAN
    BY <2>1 DEF AnswerType
  <2>3. \/ call' = [call EXCEPT ![t] = Idle]
        \/ call' = [call EXCEPT ![t] = [pc |-> "unready", sure |-> call[t].sure]]
        \/ call' = [call EXCEPT ![t] = [pc |-> "store", lane |-> call[t].answer.lane]]
    BY <1>9 DEF Release
  <2>4. call' \in [Threads -> CallType]
    BY <1>0, <2>2, <2>3, CallsMade
  <2>5. QED  BY <1>9, <2>4 DEF Release, Types, lives, Given
<1>10. ASSUME NEW t \in Threads, Store(t)
       PROVE  Types'
  <2>1. call[t] \in [pc : {"store"}, lane : Lane]
    BY <1>0, <1>10, CallFacts DEF Store
  <2>2. call[t].lane \in Lane
    BY <2>1
  <2>3. registers' \in [{X, Y, Z} -> Lane \cup {None}]
    BY <1>10, <2>2 DEF Store, Types
  <2>4. call' \in [Threads -> CallType]
    BY <1>0, <1>10, CallsMade DEF Store
  <2>5. QED  BY <1>10, <2>3, <2>4 DEF Store, Types, lives, Given
<1>11. CASE UNCHANGED vars
  BY <1>11 DEF vars, Types, Given
<1>12. "llama" \in Ids /\ "mlx" \in Ids
  BY DEF Ids
<1>13. QED  BY <1>1, <1>2, <1>3, <1>4, <1>5, <1>6, <1>7, <1>8, <1>9, <1>10, <1>11,
         <1>12 DEF Next

\* TypeOK follows.
LEMMA TypesGiveTypeOK == Types => TypeOK
<1> SUFFICES ASSUME Types PROVE TypeOK
  OBVIOUS
<1>1. Range(backends) \subseteq Ids /\ backends[1] = "native"
  BY DEF Types, Range
<1>2. llama.model \in Handle \cup {None} /\ llama.ctx \in Handle \cup {None}
  BY DEF Types
<1>3. models \subseteq Handle /\ DOMAIN contexts \subseteq Handle
  BY HandlesGiven DEF Types
<1>4. {mlx.initialized, mlx.path, initialized} \subseteq BOOLEAN
  BY DEF Types
<1>5. \A t \in Threads : call[t].pc \in {"idle", "dispatch", "ffi", "store", "unready"}
  BY CallFacts DEF Types
<1>6. QED  BY <1>1, <1>2, <1>3, <1>4, <1>5 DEF Types, TypeOK

\* Types are an invariant.
THEOREM TypesHold == Spec => []Types
BY TypesInit, TypesNext, PTL DEF Spec

\* The types of the backends, of the fabric and of the calls are kept by every step.
THEOREM TypeCorrect == Spec => []TypeOK
BY TypesHold, TypesGiveTypeOK, PTL

\* No bit is ever set beyond the length of a register's lane: whatever compute stores
\* was made by operations that mask the last word, or by a model's one bit.
THEOREM NoBitBeyondTheLength == Spec => []TailsAreClear
<1>1. Types => TailsAreClear
  <2>1. ASSUME Types PROVE \A r \in DOMAIN registers : registers[r] \in Lane \cup {None}
    BY <2>1 DEF Types
  <2>2. QED  BY <2>1 DEF TailsAreClear, Lane, IsLane
<1>2. QED  BY <1>1, TypesHold, PTL

-----------------------------------------------------------------------------
(* Handles. *)

\* What the backend points to is live, and what it does not know of was replaced.
Pointers ==
  /\ llama.model # None => llama.model \in models
  /\ llama.ctx # None => /\ llama.ctx \in DOMAIN contexts
                        /\ contexts[llama.ctx] = llama.model /\ llama.model # None
  /\ replaced \/ DOMAIN contexts \subseteq {llama.ctx}

\* A thread in the library uses the context that the backend, in the set, still has.
Uses == \A t \in Threads : call[t].pc = "ffi" /\ call[t].uses # None
                           => Added("llama") /\ call[t].uses = llama.ctx

\* The calls of the C library keep the pointers live.
LEMMA LibraryPointers ==
  ASSUME LlamaTypes, Pointers,
         \/ \E ok \in BOOLEAN : Load(ok)
         \/ \E ok \in BOOLEAN : InitContext(ok)
         \/ llama' = Unmap(llama) /\ UNCHANGED library
         \/ Teardown
         \/ UNCHANGED <<llama, library>>
  PROVE  Pointers'
<1>1. /\ None \notin Given /\ handles \notin Given
      /\ handles < MaxHandles => handles \in Handle
      /\ None \notin Handle
  BY HandlesGiven DEF LlamaTypes
<1>2. models \subseteq Given /\ DOMAIN contexts \subseteq Given
  BY DEF LlamaTypes
<1>3. ASSUME NEW ok \in BOOLEAN, Load(ok)
      PROVE  Pointers'
  <2>1. llama'.ctx = None
    BY <1>3 DEF Load
  <2>2. llama'.model # None => llama'.model \in models'
    BY <1>3 DEF Load
  <2>3. replaced' \/ DOMAIN contexts' \subseteq {llama'.ctx}
    <3>1. CASE replaced
      BY <1>3, <3>1, Zenon DEF Load
    <3>2. CASE llama.ctx # None
      BY <1>3, <3>2, Zenon DEF Load
    <3>3. CASE llama.ctx = None /\ ~replaced
      <4>1. DOMAIN contexts \subseteq {None}
        BY <3>3 DEF Pointers
      <4>2. DOMAIN contexts = {}
        BY <4>1, <1>1, <1>2
      <4>3. QED  BY <1>3, <4>2 DEF Load
    <3>4. QED  BY <3>1, <3>2, <3>3, Zenon
  <2>4. QED  BY <2>1, <2>2, <2>3 DEF Pointers
<1>4. ASSUME NEW ok \in BOOLEAN, InitContext(ok)
      PROVE  Pointers'
  <2>1. CASE ~ok
    BY <1>4, <2>1 DEF InitContext, Pointers
  <2>2. CASE ok
    <3>1. /\ handles < MaxHandles /\ llama.model # None
          /\ llama' = [llama EXCEPT !.ctx = handles]
          /\ contexts' = [h \in DOMAIN contexts \cup {handles} |->
                            IF h = handles THEN llama.model ELSE contexts[h]]
          /\ models' = models
      BY <1>4, <2>2 DEF InitContext
    <3>2. llama'.ctx = handles /\ llama'.model = llama.model
      BY <3>1 DEF LlamaTypes
    <3>3. replaced' \/ DOMAIN contexts' \subseteq {llama'.ctx}
      <4>1. CASE replaced
        BY <1>4, <2>2, <4>1, Zenon DEF InitContext
      <4>2. CASE llama.ctx # None
        BY <1>4, <2>2, <4>2, Zenon DEF InitContext
      <4>3. CASE llama.ctx = None /\ ~replaced
        <5>1. DOMAIN contexts \subseteq {None}
          BY <4>3 DEF Pointers
        <5>2. DOMAIN contexts = {}
          BY <5>1, <1>1, <1>2
        <5>3. QED  BY <3>1, <3>2, <5>2
      <4>4. QED  BY <4>1, <4>2, <4>3, Zenon
    <3>4. QED  BY <3>1, <3>2, <3>3 DEF Pointers
  <2>3. QED  BY <2>1, <2>2
<1>5. CASE Teardown
  <2>1. llama'.ctx = None /\ llama'.model = None
    BY <1>5 DEF Teardown, Unmap, LlamaTypes
  <2>2. replaced' = replaced /\ DOMAIN contexts' = DOMAIN contexts \ {llama.ctx}
    BY <1>5 DEF Teardown, Without
  <2>3. replaced' \/ DOMAIN contexts' \subseteq {llama'.ctx}
    BY <2>2, Zenon DEF Pointers
  <2>4. QED  BY <2>1, <2>3 DEF Pointers
<1>6. CASE llama' = Unmap(llama) /\ UNCHANGED library
  <2>1. llama'.ctx = llama.ctx /\ llama'.model = llama.model
    BY <1>6 DEF Unmap, LlamaTypes
  <2>2. QED  BY <1>6, <2>1 DEF library, Pointers
<1>7. CASE UNCHANGED <<llama, library>>
  BY <1>7 DEF library, Pointers
<1>8. QED  BY <1>3, <1>4, <1>5, <1>6, <1>7

\* Every step keeps both: the llama.cpp backend changes only before it is in the set,
\* where no call can find it, or behind the set's lock, when no thread executes.
LEMMA PointersNext == Types /\ Pointers /\ Uses /\ [Next]_vars => Pointers' /\ Uses'
<1> SUFFICES ASSUME Types, Pointers, Uses, [Next]_vars PROVE Pointers' /\ Uses'
  OBVIOUS
<1>0. LlamaTypes /\ call \in [Threads -> CallType]
  BY DEF Types, LlamaTypes
<1>1. CASE OwnLlama
  <2>1. Pointers'
    BY <1>0, <1>1, LibraryPointers DEF OwnLlama
  <2>2. ~Added("llama") /\ UNCHANGED <<backends, call>>
    BY <1>1 DEF OwnLlama, fabric
  <2>3. Uses'
    BY <2>2 DEF Uses, Added
  <2>4. QED  BY <2>1, <2>3
<1>2. ASSUME UNCHANGED <<backends, llama, library, call>>
      PROVE  Pointers' /\ Uses'
  BY <1>2 DEF library, Pointers, Uses, Added
<1>3. ASSUME Readers = {}, call' = Disturbed
      PROVE  Uses'
  <2>1. \A t \in Threads : call'[t].pc # "ffi"
    BY <1>0, <1>3, DisturbedFacts DEF Readers
  <2>2. QED  BY <2>1 DEF Uses
<1>4. CASE ChangeLlama
  <2>1. Pointers'
    BY <1>0, <1>4, LibraryPointers DEF ChangeLlama
  <2>2. QED  BY <1>3, <1>4, <2>1 DEF ChangeLlama
<1>5. CASE ChangeMlx
  <2>1. Pointers'
    BY <1>5 DEF ChangeMlx, library, Pointers
  <2>2. QED  BY <1>3, <1>5, <2>1 DEF ChangeMlx
<1>6. CASE Initialize
  <2>1. Pointers'
    BY <1>0, <1>6, LibraryPointers DEF Initialize
  <2>2. QED  BY <1>3, <1>6, <2>1 DEF Initialize
<1>7. ASSUME NEW b \in Ids, Add(b)
      PROVE  Pointers' /\ Uses'
  <2>1. UNCHANGED <<llama, library, call>> /\ Readers = {}
    BY <1>7 DEF Add, lives, library, fabric
  <2>2. Uses'
    BY <2>1 DEF Uses, Readers
  <2>3. QED  BY <2>1, <2>2 DEF Pointers, library
<1>8. ASSUME NEW t \in Threads, NEW new, call' = [call EXCEPT ![t] = new],
             UNCHANGED <<backends, lives>>,
             new.pc = "ffi" /\ new.uses # None => Added("llama") /\ new.uses = llama.ctx
      PROVE  Pointers' /\ Uses'
  <2>1. Pointers'
    BY <1>8 DEF lives, Pointers
  <2>2. Added("llama")' = Added("llama") /\ llama' = llama
    BY <1>8 DEF lives, Added
  <2>3. \A u \in Threads : call'[u] = IF u = t THEN new ELSE call[u]
    BY <1>0, <1>8
  <2>4. ASSUME NEW u \in Threads, call'[u].pc = "ffi", call'[u].uses # None
        PROVE  Added("llama")' /\ call'[u].uses = llama'.ctx
    BY <1>8, <2>2, <2>3, <2>4 DEF Uses
  <2>5. QED  BY <2>1, <2>4 DEF Uses
<1>9. ASSUME NEW t \in Threads, NEW op \in Ops, NEW operands \in Operands, NEW b \in Wanted,
             Select(t, op, operands, b)
      PROVE  Pointers' /\ Uses'
  <2> DEFINE chosen == IF b # None THEN b ELSE SelectBest(op, Len(operands))
             new == IF chosen = None THEN Idle
                    ELSE [pc |-> "dispatch", op |-> op, operands |-> operands,
                          chosen |-> chosen, sure |-> Sure(op, b)]
  <2>1. call' = [call EXCEPT ![t] = new] /\ UNCHANGED <<backends, lives>>
    BY <1>9 DEF Select
  <2>2. new.pc # "ffi"
    BY DEF Idle
  <2> HIDE DEF new
  <2>3. QED  BY <1>8, <2>1, <2>2
<1>10. ASSUME NEW t \in Threads, Dispatch(t)
       PROVE  Pointers' /\ Uses'
  <2> DEFINE c == call[t]
             uses == IF c.chosen = "llama" /\ Added("llama") /\ Ready("llama") /\ c.op \in InsideEval
                     THEN llama.ctx ELSE None
  <2>1. PICK a \in Answers(c.chosen, c.op, Found(c.operands)) :
          call' = [call EXCEPT ![t] =
            [pc |-> "ffi", answer |-> a, sure |-> c.sure, uses |-> uses]]
    BY <1>10 DEF Dispatch
  <2> DEFINE new == [pc |-> "ffi", answer |-> a, sure |-> c.sure, uses |-> uses]
  <2>2. new.uses # None => Added("llama") /\ new.uses = llama.ctx
    OBVIOUS
  <2>3. UNCHANGED <<backends, lives>>
    BY <1>10 DEF Dispatch
  <2>4. call' = [call EXCEPT ![t] = new]
    BY <2>1
  <2> HIDE DEF new
  <2>5. QED  BY <1>8, <2>2, <2>3, <2>4
<1>11. ASSUME NEW t \in Threads, Release(t)
       PROVE  Pointers' /\ Uses'
  <2> DEFINE a == call[t].answer
             new == IF a.ok THEN [pc |-> "store", lane |-> a.lane]
                    ELSE IF a.why = "not ready" THEN [pc |-> "unready", sure |-> call[t].sure]
                    ELSE Idle
  <2>1. call' = [call EXCEPT ![t] = new] /\ UNCHANGED <<backends, lives>>
    BY <1>11 DEF Release
  <2>2. new.pc # "ffi"
    BY DEF Idle
  <2> HIDE DEF new
  <2>3. QED  BY <1>8, <2>1, <2>2
<1>12. ASSUME NEW t \in Threads, Store(t)
       PROVE  Pointers' /\ Uses'
  BY <1>8, <1>12 DEF Store, Idle
<1>13. CASE OwnMlx
  BY <1>2, <1>13 DEF OwnMlx, fabric
<1>14. CASE UNCHANGED vars
  BY <1>2, <1>14 DEF vars, library
<1>15. "llama" \in Ids /\ "mlx" \in Ids
  BY DEF Ids
<1>16. QED
  BY <1>1, <1>4, <1>5, <1>6, <1>7, <1>9, <1>10, <1>11, <1>12, <1>13, <1>14, <1>15 DEF Next

\* No pointer outlives what it points to: the context of the backend was made for its
\* model, both are live, and so is the context of every thread that executes.
THEOREM NoPointerOutlivesItsHandle == Spec => []HandlesAreLive
<1>1. Init => Pointers /\ Uses
  BY DEF Init, Pointers, Uses, Idle
<1>2. Pointers /\ Uses => HandlesAreLive
  BY DEF Pointers, Uses, HandlesAreLive, LiveWithModel
<1>3. QED  BY <1>1, <1>2, PointersNext, TypesHold, PTL DEF Spec

-----------------------------------------------------------------------------
(* Readiness. *)

\* While a call is sure, the backend it chose is in the set and ready.
SureIsReady ==
  \A t \in Threads :
    /\ call[t].pc = "dispatch" /\ call[t].sure => Added(call[t].chosen) /\ Ready(call[t].chosen)
    /\ call[t].pc = "ffi" /\ call[t].sure => call[t].answer.why # "not ready"
    /\ call[t].pc = "unready" => ~ call[t].sure

\* A call that chose among backends that were all ready chose one that is.
LEMMA SureChoice ==
  ASSUME backends \in Seq(Ids), NEW op, NEW n \in Nat, NEW b,
         Sure(op, b), SelectBest(op, n) # None
  PROVE  b = None /\ Added(SelectBest(op, n)) /\ Ready(SelectBest(op, n))
BY BestIsAble DEF Sure, Added

\* Whether a backend is in the set and ready hangs on the set and on its own fields.
LEMMA ReadyHangsOn ==
  ASSUME NEW b \in Ids, Added(b), Ready(b),
         backends' = backends \/ \E c : backends' = Append(backends, c),
         backends \in Seq(Ids),
         b = "llama" => llama' = llama, b = "mlx" => mlx' = mlx
  PROVE  (Added(b) /\ Ready(b))'
<1>1. Added(b)'
  <2>1. PICK i \in DOMAIN backends : backends[i] = b
    BY DEF Added
  <2>2. i \in DOMAIN backends' /\ backends'[i] = b
    BY <2>1
  <2>3. QED  BY <2>2 DEF Added
<1>2. Ready(b)'
  BY DEF Ready, Ids
<1>3. QED  BY <1>1, <1>2

\* Every step keeps it: a backend of the set changes only in steps that make every call
\* that chose before unsure.
LEMMA SureNext == Types /\ SureIsReady /\ [Next]_vars => SureIsReady'
<1> SUFFICES ASSUME Types, SureIsReady, [Next]_vars PROVE SureIsReady'
  OBVIOUS
<1>0. /\ call \in [Threads -> CallType] /\ backends \in Seq(Ids)
      /\ \A t \in Threads : call[t].pc = "dispatch" => call[t].chosen \in Ids
  <2>1. call \in [Threads -> CallType] /\ backends \in Seq(Ids)
    BY DEF Types
  <2>2. \A t \in Threads : call[t].pc = "dispatch" => call[t].chosen \in Ids
    BY <2>1, CallFacts
  <2>3. QED  BY <2>1, <2>2
<1>1. ASSUME UNCHANGED call,
             backends' = backends \/ \E c : backends' = Append(backends, c),
             Added("llama") => llama' = llama, Added("mlx") => mlx' = mlx
      PROVE  SureIsReady'
  <2> SUFFICES ASSUME NEW t \in Threads, call[t].pc = "dispatch", call[t].sure
               PROVE  (Added(call[t].chosen) /\ Ready(call[t].chosen))'
    BY <1>1, Zenon DEF SureIsReady
  <2> DEFINE b == call[t].chosen
  <2>1. b \in Ids /\ Added(b) /\ Ready(b)
    BY <1>0, Zenon DEF SureIsReady
  <2>2. b' = b
    BY <1>1
  <2> HIDE DEF b
  <2>3. (b = "llama" => llama' = llama) /\ (b = "mlx" => mlx' = mlx)
    BY <1>1, <2>1
  <2>4. ASSUME NEW d \in Ids, d = b
        PROVE  (Added(d) /\ Ready(d))'
    BY <1>0, <1>1, <2>1, <2>3, <2>4, ReadyHangsOn
  <2>5. QED  BY <2>1, <2>2, <2>4 DEF b
<1>2. ASSUME call' = Disturbed
      PROVE  SureIsReady'
  <2> SUFFICES ASSUME NEW t \in Threads
               PROVE  /\ ~(call'[t].pc = "dispatch" /\ call'[t].sure)
                      /\ call'[t].pc = "ffi" /\ call'[t].sure => call'[t].answer.why # "not ready"
                      /\ call'[t].pc = "unready" => ~ call'[t].sure
    BY Zenon DEF SureIsReady
  <2>1. CASE call[t].pc = "dispatch"
    <3>1. call'[t].pc = "dispatch" /\ ~ call'[t].sure
      BY <1>0, <1>2, <2>1, DisturbedFacts
    <3>2. QED  BY <3>1
  <2>2. CASE call[t].pc # "dispatch"
    <3>1. call'[t] = call[t]
      BY <1>0, <1>2, <2>2, DisturbedFacts
    <3>2. QED  BY <2>2, <3>1, Zenon DEF SureIsReady
  <2>3. QED  BY <2>1, <2>2
<1>3. ASSUME NEW t \in Threads, NEW new, call' = [call EXCEPT ![t] = new],
             UNCHANGED <<backends, lives>>,
             new.pc = "dispatch" /\ new.sure => Added(new.chosen) /\ Ready(new.chosen),
             new.pc = "ffi" /\ new.sure => new.answer.why # "not ready",
             new.pc = "unready" => ~ new.sure
      PROVE  SureIsReady'
  <2>1. \A u \in Threads : call'[u] = IF u = t THEN new ELSE call[u]
    BY <1>0, <1>3
  <2>2. ASSUME NEW u \in Threads
        PROVE  /\ call'[u].pc = "dispatch" /\ call'[u].sure
                  => Added(call'[u].chosen) /\ Ready(call'[u].chosen)
               /\ call'[u].pc = "ffi" /\ call'[u].sure => call'[u].answer.why # "not ready"
               /\ call'[u].pc = "unready" => ~ call'[u].sure
    <3>1. CASE u = t
      BY <1>3, <2>1, <3>1, Zenon
    <3>2. CASE u # t
      <4>1. call'[u] = call[u]
        BY <2>1, <3>2
      <4>2. QED  BY <4>1, Zenon DEF SureIsReady
    <3>3. QED  BY <3>1, <3>2
  <2>3. \A u \in Threads : call'[u].pc = "dispatch" /\ call'[u].sure
          => (Added(call[u].chosen))' /\ (Ready(call[u].chosen))'
    BY <1>3, <2>2 DEF Added, Ready, lives
  <2>4. QED  BY <2>2, <2>3, Zenon DEF SureIsReady
<1>4. CASE OwnLlama
  BY <1>1, <1>4 DEF OwnLlama, fabric
<1>5. CASE OwnMlx
  BY <1>1, <1>5 DEF OwnMlx, fabric
<1>6. CASE ChangeLlama
  BY <1>2, <1>6 DEF ChangeLlama
<1>7. CASE ChangeMlx
  BY <1>2, <1>7 DEF ChangeMlx
<1>8. CASE Initialize
  BY <1>2, <1>8 DEF Initialize
<1>9. ASSUME NEW b \in Ids, Add(b)
      PROVE  SureIsReady'
  BY <1>1, <1>9 DEF Add, lives, fabric
<1>10. ASSUME NEW t \in Threads, NEW op \in Ops, NEW operands \in Operands, NEW b \in Wanted,
              Select(t, op, operands, b)
       PROVE  SureIsReady'
  <2> DEFINE best == SelectBest(op, Len(operands))
             chosen == IF b # None THEN b ELSE best
             new == IF chosen = None THEN Idle
                    ELSE [pc |-> "dispatch", op |-> op, operands |-> operands,
                          chosen |-> chosen, sure |-> Sure(op, b)]
  <2>1. call' = [call EXCEPT ![t] = new] /\ UNCHANGED <<backends, lives>>
    BY <1>10 DEF Select
  <2>2. CASE chosen = None
    <3>1. new.pc = "idle"
      BY <2>2 DEF Idle
    <3> HIDE DEF new
    <3>2. new.pc # "dispatch" /\ new.pc # "ffi" /\ new.pc # "unready"
      BY <3>1
    <3>3. QED  BY <1>3, <2>1, <3>2
  <2>3. CASE chosen # None
    <3>1. new = [pc |-> "dispatch", op |-> op, operands |-> operands,
                 chosen |-> chosen, sure |-> Sure(op, b)]
      BY <2>3
    <3>2. Len(operands) \in Nat
      BY BackendsConstants
    <3>3. Sure(op, b) => Added(chosen) /\ Ready(chosen)
      <4>1. ASSUME Sure(op, b) PROVE b = None
        BY <4>1 DEF Sure
      <4>2. ASSUME Sure(op, b) PROVE best # None /\ chosen = best
        BY <2>3, <4>1, <4>2
      <4> HIDE DEF chosen
      <4>3. QED  BY <1>0, <3>2, <4>2, SureChoice
    <3> HIDE DEF new, chosen
    <3>4. new.pc = "dispatch" /\ new.chosen = chosen
      BY <3>1
    <3>5. new.sure => Sure(op, b)
      BY <3>1, Zenon
    <3>6. new.pc = "dispatch" /\ new.sure => Added(new.chosen) /\ Ready(new.chosen)
      BY <3>3, <3>4, <3>5, Zenon
    <3>7. new.pc # "ffi" /\ new.pc # "unready"
      BY <3>4
    <3>8. QED  BY <1>3, <2>1, <3>6, <3>7
  <2>4. QED  BY <2>2, <2>3
<1>11. ASSUME NEW t \in Threads, Dispatch(t)
       PROVE  SureIsReady'
  <2> DEFINE c == call[t]
             uses == IF c.chosen = "llama" /\ Added("llama") /\ Ready("llama") /\ c.op \in InsideEval
                     THEN llama.ctx ELSE None
  <2>1. PICK a \in Answers(c.chosen, c.op, Found(c.operands)) :
          call' = [call EXCEPT ![t] =
            [pc |-> "ffi", answer |-> a, sure |-> c.sure, uses |-> uses]]
    BY <1>11 DEF Dispatch
  <2>2. c.pc = "dispatch" /\ UNCHANGED <<backends, lives>>
    BY <1>11 DEF Dispatch
  <2>3. a.why = "not ready" => Added(c.chosen) /\ ~ Ready(c.chosen)
    BY <2>1, <2>2, AnswerOfCall
  <2>4. c.sure => a.why # "not ready"
    BY <2>2, <2>3, Zenon DEF SureIsReady
  <2> DEFINE new == [pc |-> "ffi", answer |-> a, sure |-> c.sure, uses |-> uses]
  <2>5. new.pc = "ffi" /\ new.answer = a
    OBVIOUS
  <2>6. new.sure => c.sure
    BY Zenon
  <2>7. call' = [call EXCEPT ![t] = new]
    BY <2>1
  <2> HIDE DEF new, c
  <2>8. new.sure => new.answer.why # "not ready"
    BY <2>4, <2>5, <2>6, Zenon
  <2>9. new.pc # "dispatch" /\ new.pc # "unready"
    BY <2>5
  <2>10. QED  BY <1>3, <2>2, <2>7, <2>8, <2>9
<1>12. ASSUME NEW t \in Threads, Release(t)
       PROVE  SureIsReady'
  <2> DEFINE a == call[t].answer
             new == IF a.ok THEN [pc |-> "store", lane |-> a.lane]
                    ELSE IF a.why = "not ready" THEN [pc |-> "unready", sure |-> call[t].sure]
                    ELSE Idle
  <2>1. /\ call' = [call EXCEPT ![t] = new] /\ UNCHANGED <<backends, lives>>
        /\ call[t].pc = "ffi"
    BY <1>12 DEF Release
  <2>2. new.pc # "ffi" /\ new.pc # "dispatch"
    BY DEF Idle
  <2>3. new.pc = "unready" => ~ new.sure
    <3>1. CASE ~ a.ok /\ a.why = "not ready"
      <4>1. ~ call[t].sure
        BY <2>1, <3>1, Zenon DEF SureIsReady
      <4>2. new = [pc |-> "unready", sure |-> call[t].sure]
        BY <3>1
      <4> HIDE DEF new
      <4>3. new.sure => call[t].sure
        BY <4>2, Zenon
      <4>4. QED  BY <4>1, <4>3, Zenon
    <3>2. CASE ~(~ a.ok /\ a.why = "not ready")
      BY <3>2 DEF Idle
    <3>3. QED  BY <3>1, <3>2
  <2> HIDE DEF new
  <2>4. QED  BY <1>3, <2>1, <2>2, <2>3
<1>13. ASSUME NEW t \in Threads, Store(t)
       PROVE  SureIsReady'
  <2>1. Idle.pc = "idle"
    BY DEF Idle
  <2>2. QED  BY <1>3, <1>13, <2>1 DEF Store
<1>14. CASE UNCHANGED vars
  BY <1>1, <1>14 DEF vars
<1>15. "llama" \in Ids /\ "mlx" \in Ids
  BY DEF Ids
<1>16. QED
  BY <1>4, <1>5, <1>6, <1>7, <1>8, <1>9, <1>10, <1>11, <1>12, <1>13, <1>14, <1>15 DEF Next

\* compute meets a backend that is not ready only when a backend that supports the
\* operation was not ready as it chose, or was changed before it executed.
THEOREM NotReadyOnlyByTheChoice == Spec => []NotReadyOnlyByChoice
<1>1. Init => SureIsReady
  <2>1. ASSUME Init, NEW t \in Threads PROVE call[t].pc = "idle"
    BY <2>1 DEF Init, Idle
  <2>2. QED  BY <2>1 DEF SureIsReady
<1>2. SureIsReady => NotReadyOnlyByChoice
  BY DEF SureIsReady, NotReadyOnlyByChoice
<1>3. QED  BY <1>1, <1>2, SureNext, TypesHold, PTL DEF Spec
=============================================================================
