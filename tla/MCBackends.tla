----------------------------- MODULE MCBackends -----------------------------
(* Two threads; lanes of two and three bits in words of two.               *)
EXTENDS Backends, TLC

CONSTANTS x, y, z

MCOperands == {<<x, y>>, <<z, x>>}
MCOps == {"Mul", "MatMul", "Hadamard", "Softmax"}
MCWanted == {None, "llama"}

\* Both of three bits, and of different lengths.
MCStores ==
  {x :> FromBits(3, {0, 2}) @@ y :> FromBits(3, {1}),
   x :> FromBits(3, {0, 2}) @@ y :> FromBits(2, {1})}

ThreadSymmetry == Permutations(Threads)
=============================================================================
