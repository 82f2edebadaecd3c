-------------------------- MODULE MCEchoPropagator --------------------------
(* Small instances of EchoPropagator for TLC. *)
EXTENDS EchoPropagator, TLC

CONSTANTS a, b, c, s, QueueSizes

MCAddr == {a, b, c}
MCSectorOf == [x \in MCAddr |-> s]

\* In the chain `b` feeds `a`, which is not registered; in the fan-out `a` feeds two.
MCDependentMaps ==
  {a :> {b} @@ b :> {a} @@ c :> {},
   a :> {b, c} @@ b :> {} @@ c :> {}}
MCRegisteredSets == {{b, c}}
MCInserts == {<<s, a>>}

MCPolicies == [bloom_gated : BOOLEAN, rotation_damped : BOOLEAN, xor_cancel : BOOLEAN,
               max_depth : {0, 1}, max_queue_size : QueueSizes]

\* EchoPolicy::default() with a queue of QueueSizes.
MCDefaultPolicies == [bloom_gated : {TRUE}, rotation_damped : {TRUE}, xor_cancel : {TRUE},
                      max_depth : {0}, max_queue_size : QueueSizes]
=============================================================================
