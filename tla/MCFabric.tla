------------------------------ MODULE MCFabric ------------------------------
(* Small instances of Fabric for TLC: a register p, its child c, a result r. *)
EXTENDS Fabric, TLC

CONSTANTS p, c, r, s

MCAddr == {p, c, r}
MCSectorOf == [x \in MCAddr |-> s]
MCLayerOf == [x \in MCAddr |-> 13]
MCChild == p :> c
MCPopulatedSets == {{p}, {p, c}}

MCComputeOps == {<<p, c, r>>}

PolicyOf(gated, damped, cancel, size) ==
  [bloom_gated |-> gated, rotation_damped |-> damped, xor_cancel |-> cancel,
   max_depth |-> 0, max_queue_size |-> size]

\* The default policy with a small queue, a gated one that would deliver if the gate
\* opened, and ungated ones with and without damping.
MCPolicies ==
  {PolicyOf(TRUE, TRUE, TRUE, 2), PolicyOf(TRUE, FALSE, TRUE, 2),
   PolicyOf(FALSE, TRUE, FALSE, 4), PolicyOf(FALSE, FALSE, TRUE, 2)}
MCDefaultPolicies == {PolicyOf(TRUE, TRUE, TRUE, 2)}
=============================================================================
