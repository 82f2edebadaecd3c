----------------------------- MODULE MCRotation -----------------------------
(* Instances of Rotation for TLC. Layer 1 belongs to two tiers; the cold layer's base   *)
(* period saturates; the plugged-in hot layer has period zero.                          *)
EXTENDS Rotation, Sequences

MCTiers == <<[id |-> "HOT", min |-> 0, max |-> 1], [id |-> "GPU", min |-> 1, max |-> 2],
             [id |-> "COLD", min |-> 11, max |-> 11]>>
Policy(n, d, aware, batch) ==
  [multiplier |-> <<n, d>>, energy_aware |-> aware, batch |-> batch, prefetch |-> batch]
MCPolicies == {Policy(2, 1, TRUE, TRUE), Policy(1, 1, TRUE, TRUE), Policy(2, 1, FALSE, FALSE)}
=============================================================================
