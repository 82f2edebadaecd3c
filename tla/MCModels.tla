------------------------------ MODULE MCModels ------------------------------
(* Instances of Models for TLC: one weight at address 1, its delta at 2. *)
EXTENDS Models

MCCompounds == {<<"XorChain", <<1, 2>>>>, <<"Interleaved", <<1, 2>>>>, <<"Sequential", <<2, 1>>>>}
=============================================================================
