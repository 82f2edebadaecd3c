------------------------------- MODULE MCIntent -------------------------------
(* Instances of Intent for TLC: two genes, lanes of two bits, one of another length, *)
(* and an empty one.                                                        *)
EXTENDS Intent

MCLanes == {[len |-> 2, on |-> {}], [len |-> 2, on |-> {0, 1}],
            [len |-> 1, on |-> {0}], [len |-> 0, on |-> {}]}
MCHashes == {{0}, {0, 1}}
MCIntentHash == {0, 1}
MCMinSuccess == <<1, 2>>
===============================================================================
