------------------------------- MODULE Lanes -------------------------------
(***************************************************************************)
(* Bitsliced lanes (bitslice.rs) and the operations the native backend     *)
(* computes with them (backend.rs).                                        *)
(*                                                                         *)
(* A lane is a vector of machine words and a number of bits.  Here it is   *)
(* the number of bits, the number of words, and the set of the positions,  *)
(* over all words, whose bit is set: the positions from num_bits on are in *)
(* the last word, no operation reads them by index, and popcount and `==`  *)
(* count them.  A word has W bits, 64 in the code.                         *)
(***************************************************************************)
EXTENDS Naturals, Sequences, FiniteSets

CONSTANT W

ASSUME WordWidth == W \in Nat \ {0}

WordsFor(n) == (n + W - 1) \div W
Positions(lane) == 0..(lane.words * W - 1)

WithCapacity(n) == [num_bits |-> n, words |-> WordsFor(n), set |-> {}]

FromBits(n, ones) == [WithCapacity(n) EXCEPT !.set = ones \cap 0..(n - 1)]

GetBit(lane, i) == i < lane.num_bits /\ i \in lane.set

SetBit(lane, i, value) ==
  IF i >= lane.num_bits THEN lane
  ELSE [lane EXCEPT !.set = IF value THEN @ \cup {i} ELSE @ \ {i}]

PopCount(lane) == Cardinality(lane.set)

\* `xor_merge` and `and_merge` assert equal lengths first.
SameLength(a, b) == a.num_bits = b.num_bits
XorMerge(a, b) == [a EXCEPT !.set = (@ \ b.set) \cup (b.set \ @)]
AndMerge(a, b) == [a EXCEPT !.set = @ \cap b.set]

NotUnmasked(lane) ==     \* mutant: the bits beyond num_bits are not masked off
  [lane EXCEPT !.set = Positions(lane) \ @]

\* The mask is applied to the last word, and only if num_bits leaves a rest.
NotInplace(lane) ==
  LET flipped == Positions(lane) \ lane.set
      first   == (lane.words - 1) * W
      rest    == lane.num_bits % W
  IN [lane EXCEPT !.set = IF rest = 0 THEN flipped
                          ELSE {i \in flipped : i < first + rest}]

TailIsClear(lane) == \A i \in lane.set : i < lane.num_bits

\* What the constructors make: just enough words, and no bit beyond the length.
IsLane(lane) ==
  /\ lane \in [num_bits : Nat, words : Nat, set : SUBSET Nat]
  /\ lane.words = WordsFor(lane.num_bits) /\ TailIsClear(lane)

(***************************************************************************)
(* `NativeBackend::execute`.  An operation of two operands that finds      *)
(* fewer fails or answers with the empty lane; lanes of different lengths  *)
(* meet the assertion of the merge, except in MatMul, which looks first.   *)
(***************************************************************************)
NativeOps == {"Add", "Mul", "MatMul", "SiLU", "GELU", "Sin", "Cos",
              "XorGate", "AndGate", "OrGate", "NotGate", "Hadamard"}
Strict == {"Add", "Mul", "MatMul"}
Binary == Strict \cup {"XorGate", "AndGate", "OrGate", "Hadamard"}

Answer(lane)   == [ok |-> TRUE, why |-> "ok", lane |-> lane]
Failure(why) == [ok |-> FALSE, why |-> why, lane |-> WithCapacity(0)]

\* SiLU and GELU keep a lane whose top bit is set and clear any other.
Rectified(lane) ==
  IF lane.num_bits > 0 /\ ~GetBit(lane, lane.num_bits - 1)
  THEN AndMerge(lane, WithCapacity(lane.num_bits)) ELSE lane

Parity(a, b) ==
  SetBit(WithCapacity(1), 0, PopCount(AndMerge(a, b)) % 2 # 0)

OnTwo(op, a, b) ==
  CASE op \in {"Add", "XorGate"} -> XorMerge(a, b)
    [] op \in {"Mul", "AndGate"} -> AndMerge(a, b)
    [] op = "MatMul"   -> Parity(a, b)
    [] op = "OrGate"   -> NotInplace(AndMerge(NotInplace(a), NotInplace(b)))
    [] op = "Hadamard" -> NotInplace(XorMerge(a, b))

OnOne(op, a) ==
  CASE op \in {"Cos", "NotGate"} -> NotInplace(a)
    [] op \in {"SiLU", "GELU"} -> Rectified(a)
    [] op = "Sin" -> a

NativeExecute(op, operands) ==
  CASE op \notin NativeOps -> Failure("unsupported")
    [] op \in Binary /\ Len(operands) < 2 ->
         IF op \in Strict THEN Failure("operands") ELSE Answer(WithCapacity(0))
    [] op \in Binary /\ Len(operands) >= 2 ->
         IF SameLength(operands[1], operands[2])
         THEN Answer(OnTwo(op, operands[1], operands[2]))
         ELSE Failure(IF op = "MatMul" THEN "dimensions" ELSE "panic")
    [] OTHER ->
         Answer(OnOne(op, IF operands = <<>> THEN WithCapacity(0) ELSE operands[1]))
=============================================================================
